---- MODULE Spec2Model ----
(***************************************************************************)
(* Memory consistency argument of the EVM prover:                          *)
(* evm_arithmetization/src/memory/memory_stark.rs.                         *)
(*                                                                         *)
(* The module models MemoryStark::generate_trace as a state machine whose  *)
(* steps are the functions it calls in order (mem_before injection,        *)
(* fill_gaps, pad_memory_ops, row building with                            *)
(* generate_first_change_flags_and_rc, ...), and the constraint evaluators *)
(* eval_packed_generic / eval_ext_circuit as operators over a pair of rows.*)
(*                                                                         *)
(* It also models prove() of zero_bin/prover/src/lib.rs: one future per    *)
(* block, chained to its predecessor by a one-shot channel and collected   *)
(* in input order.                                                         *)
(***************************************************************************)
EXTENDS Integers, Sequences, FiniteSets, Bags, TLC

(***************************************************************************)
(* Bounds of the model.                                                    *)
(***************************************************************************)
\* Largest number of operations in the input list.
MaxOps == 2
\* Largest context of an input operation.
MaxContext == 1
\* Far virtual offset and far timestamp of an input operation (next to 0, 1).
MaxVirt == 5
MaxTimestamp == 5
\* Width of a value limb in bits (32 in the code; TLC integers are 32 bit).
LimbBits == 2
\* Largest number of blocks given to prove().
MaxBlocks == 3

(***************************************************************************)
(* Program constants.                                                      *)
(***************************************************************************)
VALUE_LIMBS == 8

\* Segment indices (Segment::X.unscale()); the enum lives in
\* memory/segments.rs.
SEGMENT_CODE == 0
SEGMENT_STACK == 1
SEGMENT_CONTEXT_METADATA == 6
SEGMENT_TRIE_DATA == 7
SEGMENT_ACCOUNTS_LINKED_LIST == 8
SEGMENT_STORAGE_LINKED_LIST == 9

PREINITIALIZED_SEGMENTS_INDICES ==
    {SEGMENT_CODE, SEGMENT_TRIE_DATA, SEGMENT_ACCOUNTS_LINKED_LIST,
     SEGMENT_STORAGE_LINKED_LIST}

(***************************************************************************)
(* The field F.  The code works in the 64-bit Goldilocks field; the model  *)
(* works in the prime field of order 2^15 - 19, the largest whose products *)
(* fit TLC's integers.                                                     *)
(***************************************************************************)
FieldOrder == 32768 - 19

from_canonical_usize(n) == n % FieldOrder
from_bool(b) == IF b THEN 1 ELSE 0
FAdd(a, b) == (a + b) % FieldOrder
FSub(a, b) == ((a - b) + FieldOrder) % FieldOrder
FMul(a, b) == (a * b) % FieldOrder
FNeg(a) == (FieldOrder - a) % FieldOrder

\* Square and multiply: acc * a^e.
RECURSIVE FPowAcc(_, _, _)
FPowAcc(a, e, acc) ==
    IF e = 0 THEN acc
    ELSE FPowAcc(FMul(a, a), e \div 2, IF e % 2 = 1 THEN FMul(acc, a) ELSE acc)

FPow(a, e) == FPowAcc(a, e, 1)

\* Mutant: the default for every element.
InverseAlwaysDefault(a) == 0

\* Field::try_inverse().unwrap_or_default()
try_inverse_or_default(a) == IF a = 0 THEN 0 ELSE FPow(a, FieldOrder - 2)

RECURSIVE Pow2(_)
Pow2(k) == IF k = 0 THEN 1 ELSE 2 * Pow2(k - 1)

\* usize::next_power_of_two: the smallest power of two >= n.
RECURSIVE NextPow2From(_, _)
NextPow2From(p, n) == IF p >= n THEN p ELSE NextPow2From(2 * p, n)
next_power_of_two(n) == NextPow2From(1, n)

IsPowerOfTwo(n) == n >= 1 /\ next_power_of_two(n) = n

(***************************************************************************)
(* Operations (witness::memory::MemoryOp).                                 *)
(***************************************************************************)
Read == "Read"
Write == "Write"

MemoryAddress(c, s, v) == [context |-> c, segment |-> s, virt |-> v]

MemoryOp(f, t, a, k, v) ==
    [filter |-> f, timestamp |-> t, address |-> a, kind |-> k, value |-> v]

\* MemoryOp::new_dummy_read
new_dummy_read(address, timestamp, value) ==
    MemoryOp(FALSE, timestamp, address, Read, value)

\* Mutant: the key without the context.
SortingKeyWithoutContext(op) ==
    <<0, op.address.segment, op.address.virt, op.timestamp>>

\* MemoryOp::sorting_key
sorting_key(op) ==
    <<op.address.context, op.address.segment, op.address.virt, op.timestamp>>

\* Lexicographic order of two sorting keys.
KeyLess(k1, k2) ==
    \E i \in 1..4 : k1[i] < k2[i] /\ \A j \in 1..(i - 1) : k1[j] = k2[j]

KeyLeq(k1, k2) == ~KeyLess(k2, k1)

SameAddress(a, b) == a.address = b.address

\* The place of ops[i] in the stable sort of ops: after every operation of
\* smaller key and every earlier operation of equal key.
SortRank(ops, i) ==
    Cardinality({j \in 1..Len(ops) :
        \/ KeyLess(sorting_key(ops[j]), sorting_key(ops[i]))
        \/ sorting_key(ops[j]) = sorting_key(ops[i]) /\ j < i}) + 1

\* Vec::sort_by_key(MemoryOp::sorting_key): a stable sort.
sort_by_key(ops) ==
    LET rank == [i \in 1..Len(ops) |-> SortRank(ops, i)] \o <<>>
    IN  [p \in 1..Len(ops) |-> ops[CHOOSE i \in 1..Len(ops) : rank[i] = p]]

IsSorted(ops) ==
    \A i \in 1..(Len(ops) - 1) :
        KeyLeq(sorting_key(ops[i]), sorting_key(ops[i + 1]))

(***************************************************************************)
(* MemoryStark::fill_gaps                                                  *)
(***************************************************************************)
\* Mutant: the (0, 0, 0) dummy at timestamp 0.
FirstDummyAtZero == MemoryOp(FALSE, 0, MemoryAddress(0, 0, 0), Read, 0)

\* The dummy read at (0, 0, 0) put in front of the list.
FirstDummy == MemoryOp(FALSE, 1, MemoryAddress(0, 0, 0), Read, 0)

\* The number of times a `while` loop runs: the first n after which its
\* condition, given as the set of the n at which it still holds, fails.
LoopCount(holding, most) ==
    CHOOSE n \in 0..most : n \notin holding /\ \A m \in 0..(n - 1) : m \in holding

\* Context or segment changes: step down from next's virtual offset.  The
\* k-th pass pushes a dummy read max_rc below the one before; curr stays.
ContextSegmentDummies(curr, next, max_rc) ==
    LET virt == next.address.virt
        passes == LoopCount({n \in 0..virt : virt - n * max_rc > max_rc}, virt)
    IN  [k \in 1..passes |->
            new_dummy_read([next.address EXCEPT !.virt = virt - k * max_rc],
                           curr.timestamp + 1, 0)]

\* Mutant: a virtual-offset gap is left as it is.
VirtualDummiesNone(curr, next, max_rc) == <<>>

\* Only the virtual offset changes: step up from curr's virtual offset.  The
\* k-th pass pushes a dummy read max_rc + 1 above the one before, which is
\* the new curr, so its timestamp is one more as well.
VirtualDummies(curr, next, max_rc) ==
    LET gap == next.address.virt - curr.address.virt
        passes == LoopCount({n \in 0..gap :
                                gap - n * (max_rc + 1) - 1 > max_rc}, gap)
    IN  [k \in 1..passes |->
            new_dummy_read([curr.address EXCEPT
                               !.virt = curr.address.virt + k * (max_rc + 1)],
                           curr.timestamp + k, 0)]

\* Mutant: the loop body runs once at most.
TimestampDummiesOnce(curr, next, max_rc) ==
    IF next.timestamp - curr.timestamp > max_rc
    THEN <<new_dummy_read(curr.address, curr.timestamp + max_rc, curr.value)>>
    ELSE <<>>

\* Mutant: the timestamp dummies read 0 instead of curr's value.
TimestampDummiesZeroValue(curr, next, max_rc) ==
    LET gap == next.timestamp - curr.timestamp
        passes == LoopCount({n \in 0..gap : gap - n * max_rc > max_rc}, gap)
    IN  [k \in 1..passes |->
            new_dummy_read(curr.address, curr.timestamp + k * max_rc, 0)]

\* Same address: step up the timestamp, carrying curr's value.  The k-th
\* pass pushes a dummy read max_rc after the one before, the new curr.
TimestampDummies(curr, next, max_rc) ==
    LET gap == next.timestamp - curr.timestamp
        passes == LoopCount({n \in 0..gap : gap - n * max_rc > max_rc}, gap)
    IN  [k \in 1..passes |->
            new_dummy_read(curr.address, curr.timestamp + k * max_rc, curr.value)]

\* Mutant: the same-address branch pushes nothing.
GapDummiesNoTimestamp(curr, next, max_rc) ==
    IF curr.address.context # next.address.context
       \/ curr.address.segment # next.address.segment
    THEN ContextSegmentDummies(curr, next, max_rc)
    ELSE IF curr.address.virt # next.address.virt
    THEN VirtualDummies(curr, next, max_rc)
    ELSE <<>>

\* The dummies pushed for one window (curr, next) of the sorted list.
GapDummies(curr, next, max_rc) ==
    IF curr.address.context # next.address.context
       \/ curr.address.segment # next.address.segment
    THEN ContextSegmentDummies(curr, next, max_rc)
    ELSE IF curr.address.virt # next.address.virt
    THEN VirtualDummies(curr, next, max_rc)
    ELSE TimestampDummies(curr, next, max_rc)

\* The list after the optional insertion of the (0, 0, 0) dummy.
WithFirstDummy(memory_ops) ==
    IF memory_ops[1].address.virt # 0
    THEN <<FirstDummy>> \o memory_ops
    ELSE memory_ops

\* Mutant: max_rc from the length itself, not its next power of two.
FillGapsMaxRcFromLen(ops) == Len(ops) - 1

\* max_rc, computed once the (0, 0, 0) dummy is in.
FillGapsMaxRc(ops) == next_power_of_two(Len(ops)) - 1

\* The dummies of the windows lo..hi, in window order (the windows are split
\* in halves to keep the evaluation shallow).
RECURSIVE WindowDummies(_, _, _, _)
WindowDummies(ops, max_rc, lo, hi) ==
    IF lo > hi THEN <<>>
    ELSE IF lo = hi THEN GapDummies(ops[lo], ops[lo + 1], max_rc)
    ELSE LET mid == (lo + hi) \div 2
         IN  WindowDummies(ops, max_rc, lo, mid)
             \o WindowDummies(ops, max_rc, mid + 1, hi)

\* fill_gaps on a non-empty sorted list: the dummies are pushed at the end.
fill_gaps(memory_ops) ==
    LET ops == WithFirstDummy(memory_ops)
        max_rc == FillGapsMaxRc(ops)
    IN  ops \o WindowDummies(ops, max_rc, 1, Len(ops) - 1)

(***************************************************************************)
(* MemoryStark::pad_memory_ops                                             *)
(***************************************************************************)
\* Mutant: the last operation repeated at its own address and timestamp.
PaddingOpSamePlace(last_op) ==
    MemoryOp(FALSE, last_op.timestamp, last_op.address, Read, 0)

\* Mutant: the padding row a whole stride of offsets past the last operation.
PaddingOpFarAway(last_op) ==
    MemoryOp(FALSE, last_op.timestamp + 1,
             [last_op.address EXCEPT !.virt = last_op.address.virt + 64],
             Read, 0)

\* Mutant: the last operation repeated with its own kind.
PaddingOpSameKind(last_op) ==
    MemoryOp(FALSE, last_op.timestamp + 1,
             [last_op.address EXCEPT !.virt = last_op.address.virt + 1],
             last_op.kind, 0)

PaddingOp(last_op) ==
    MemoryOp(FALSE, last_op.timestamp + 1,
             [last_op.address EXCEPT !.virt = last_op.address.virt + 1],
             Read, 0)

\* Mutant: no padding row when the length is a power of two already.
PadMemoryOpsNoExtraRow(memory_ops) ==
    LET last_op == memory_ops[Len(memory_ops)]
        num_ops == Len(memory_ops)
        num_ops_padded == next_power_of_two(num_ops)
    IN  memory_ops \o [i \in 1..(num_ops_padded - num_ops) |-> PaddingOp(last_op)]

pad_memory_ops(memory_ops) ==
    LET last_op == memory_ops[Len(memory_ops)]
        num_ops == Len(memory_ops)
        num_ops_padded == next_power_of_two(num_ops + 1)
    IN  memory_ops \o [i \in 1..(num_ops_padded - num_ops) |-> PaddingOp(last_op)]

(***************************************************************************)
(* Rows (memory::columns::MemoryColumnsView) and MemoryOp::into_row        *)
(***************************************************************************)
\* (value >> (j * 32)).low_u32(), with limbs of LimbBits bits.
ValueLimb(value, j) == (value \div Pow2(j * LimbBits)) % Pow2(LimbBits)

ZeroLimbs == [j \in 1..VALUE_LIMBS |-> 0]

\* MemoryColumnsView::default()
DefaultRow ==
    [filter |-> 0, timestamp |-> 0, timestamp_inv |-> 0, is_read |-> 0,
     addr_context |-> 0, addr_segment |-> 0, addr_virtual |-> 0,
     value_limbs |-> ZeroLimbs,
     context_first_change |-> 0, segment_first_change |-> 0,
     virtual_first_change |-> 0, range_check |-> 0,
     preinitialized_segments |-> 0, preinitialized_segments_aux |-> 0,
     initialize_aux |-> 0,
     counter |-> 0, frequencies |-> 0,
     stale_contexts |-> 0, stale_context_frequencies |-> 0, is_pruned |-> 0,
     is_stale |-> 0, maybe_in_mem_after |-> 0, mem_after_filter |-> 0]

into_row(op) ==
    [DefaultRow EXCEPT
        !.filter = from_bool(op.filter),
        !.timestamp = from_canonical_usize(op.timestamp),
        !.timestamp_inv =
            try_inverse_or_default(from_canonical_usize(op.timestamp)),
        !.is_read = from_bool(op.kind = Read),
        !.addr_context = from_canonical_usize(op.address.context),
        !.addr_segment = from_canonical_usize(op.address.segment),
        !.addr_virtual = from_canonical_usize(op.address.virt),
        !.value_limbs = [j \in 1..VALUE_LIMBS |-> ValueLimb(op.value, j - 1)]]

(***************************************************************************)
(* generate_first_change_flags_and_rc                                      *)
(***************************************************************************)
\* Mutant: the last row compared with itself.
NextIndexNoWraparound(idx, num_ops) == IF idx = num_ops THEN idx ELSE idx + 1

\* The row compared with row idx: the following one, the first for the last.
NextIndex(idx, num_ops) == IF idx = num_ops THEN 1 ELSE idx + 1

\* Mutant: the delta itself, not the delta minus one.
RangeCheckValueWholeDelta(row, next_row, is_last) ==
    IF is_last THEN 0
    ELSE IF row.addr_context # next_row.addr_context
    THEN FSub(next_row.addr_context, row.addr_context)
    ELSE IF row.addr_segment # next_row.addr_segment
    THEN FSub(next_row.addr_segment, row.addr_segment)
    ELSE IF row.addr_virtual # next_row.addr_virtual
    THEN FSub(next_row.addr_virtual, row.addr_virtual)
    ELSE FSub(next_row.timestamp, row.timestamp)

RangeCheckValue(row, next_row, is_last) ==
    LET context_first_change == row.addr_context # next_row.addr_context
        segment_first_change ==
            row.addr_segment # next_row.addr_segment /\ ~context_first_change
        virtual_first_change ==
            /\ row.addr_virtual # next_row.addr_virtual
            /\ ~segment_first_change
            /\ ~context_first_change
    IN  IF is_last THEN 0
        ELSE IF context_first_change
        THEN FSub(FSub(next_row.addr_context, row.addr_context), 1)
        ELSE IF segment_first_change
        THEN FSub(FSub(next_row.addr_segment, row.addr_segment), 1)
        ELSE IF virtual_first_change
        THEN FSub(FSub(next_row.addr_virtual, row.addr_virtual), 1)
        ELSE FSub(next_row.timestamp, row.timestamp)

\* Mutant: initialize_aux whatever the kind of the next row.
InitializeAuxIgnoringKind(preinitialized_segments, address_changed, next_is_read) ==
    FMul(preinitialized_segments, address_changed)

\* row.preinitialized_segments * address_changed * next_is_read
InitializeAuxValue(preinitialized_segments, address_changed, next_is_read) ==
    FMul(FMul(preinitialized_segments, address_changed), next_is_read)

\* The body of the loop for one row, without the assertion.
FlagsAndRcRow(row, next_row, is_last) ==
    LET context_changed == row.addr_context # next_row.addr_context
        segment_changed == row.addr_segment # next_row.addr_segment
        virtual_changed == row.addr_virtual # next_row.addr_virtual
        context_first_change == context_changed
        segment_first_change == segment_changed /\ ~context_first_change
        virtual_first_change ==
            virtual_changed /\ ~segment_first_change /\ ~context_first_change
        aux == FMul(FSub(next_row.addr_segment,
                         from_canonical_usize(SEGMENT_ACCOUNTS_LINKED_LIST)),
                    FSub(next_row.addr_segment,
                         from_canonical_usize(SEGMENT_STORAGE_LINKED_LIST)))
        pre == FMul(FMul(FSub(next_row.addr_segment,
                              from_canonical_usize(SEGMENT_CODE)),
                         FSub(next_row.addr_segment,
                              from_canonical_usize(SEGMENT_TRIE_DATA))),
                    aux)
        address_changed ==
            FAdd(FAdd(from_bool(context_first_change),
                      from_bool(segment_first_change)),
                 from_bool(virtual_first_change))
    IN  [row EXCEPT
            !.context_first_change = from_bool(context_first_change),
            !.segment_first_change = from_bool(segment_first_change),
            !.virtual_first_change = from_bool(virtual_first_change),
            !.range_check = RangeCheckValue(row, next_row, is_last),
            !.preinitialized_segments_aux = aux,
            !.preinitialized_segments = pre,
            !.initialize_aux =
                InitializeAuxValue(pre, address_changed, next_row.is_read)]

\* The rows with their flags; row idx reads its neighbour's address,
\* timestamp and is_read, which the loop never writes.
FlagsAndRcRows(trace_rows) ==
    LET num_ops == Len(trace_rows)
    IN  [idx \in 1..num_ops |->
            FlagsAndRcRow(trace_rows[idx],
                          trace_rows[NextIndex(idx, num_ops)],
                          idx = num_ops)]

\* assert!(row.range_check.to_canonical_u64() < num_ops as u64)
\* Mutant: the assertion compiled out.
RangeCheckAssertionSkipped(rows) == TRUE

RangeCheckAssertion(rows) ==
    \A idx \in 1..Len(rows) : rows[idx].range_check < Len(rows)

(***************************************************************************)
(* The two constraint consumers.  A yielded constraint is recorded with    *)
(* the method that yielded it and the value of its expression.             *)
(***************************************************************************)
constraint(v) == [kind |-> "constraint", value |-> v]
constraint_transition(v) == [kind |-> "constraint_transition", value |-> v]
constraint_first_row(v) == [kind |-> "constraint_first_row", value |-> v]

(***************************************************************************)
(* MemoryStark::eval_packed_generic on a pair of rows (lv, nv).            *)
(***************************************************************************)
address_unchanged(lv) ==
    FSub(FSub(FSub(1, lv.context_first_change), lv.segment_first_change),
         lv.virtual_first_change)

\* Mutant: the complement of the indicator taken to be 0.
NotAddressUnchangedZero(lv) == 0

not_address_unchanged(lv) == FSub(1, address_unchanged(lv))

\* Mutant: the deltas themselves, not the deltas minus one.
ComputedRangeCheckWholeDelta(lv, nv) ==
    FAdd(FAdd(FAdd(
        FMul(lv.context_first_change, FSub(nv.addr_context, lv.addr_context)),
        FMul(lv.segment_first_change, FSub(nv.addr_segment, lv.addr_segment))),
        FMul(lv.virtual_first_change, FSub(nv.addr_virtual, lv.addr_virtual))),
        FMul(address_unchanged(lv), FSub(nv.timestamp, lv.timestamp)))

computed_range_check(lv, nv) ==
    FAdd(FAdd(FAdd(
        FMul(lv.context_first_change,
             FSub(FSub(nv.addr_context, lv.addr_context), 1)),
        FMul(lv.segment_first_change,
             FSub(FSub(nv.addr_segment, lv.addr_segment), 1))),
        FMul(lv.virtual_first_change,
             FSub(FSub(nv.addr_virtual, lv.addr_virtual), 1))),
        FMul(address_unchanged(lv), FSub(nv.timestamp, lv.timestamp)))

\* preinitialized_segments_aux - (seg' - AccountsLinkedList) (seg' - StorageLinkedList)
PreinitializedSegmentsAuxConstraint(lv, nv) ==
    FSub(lv.preinitialized_segments_aux,
         FMul(FSub(nv.addr_segment,
                   from_canonical_usize(SEGMENT_ACCOUNTS_LINKED_LIST)),
              FSub(nv.addr_segment,
                   from_canonical_usize(SEGMENT_STORAGE_LINKED_LIST))))

\* preinitialized_segments - (seg' - Code) (seg' - TrieData) preinitialized_segments_aux
PreinitializedSegmentsConstraint(lv, nv) ==
    FSub(lv.preinitialized_segments,
         FMul(FMul(FSub(nv.addr_segment, from_canonical_usize(SEGMENT_CODE)),
                   FSub(nv.addr_segment, from_canonical_usize(SEGMENT_TRIE_DATA))),
              lv.preinitialized_segments_aux))

\* initialize_aux - preinitialized_segments (1 - address_unchanged) is_read'
InitializeAuxConstraint(lv, nv) ==
    FSub(lv.initialize_aux,
         FMul(FMul(lv.preinitialized_segments, not_address_unchanged(lv)),
              nv.is_read))

ReadConstraint(lv, nv, i) ==
    FMul(FMul(nv.is_read, address_unchanged(lv)),
         FSub(nv.value_limbs[i], lv.value_limbs[i]))

\* Mutant: the zero-initialization acts on the current row's value.
ZeroInitConstraintOnCurrentRow(lv, nv, i) ==
    FMul(lv.initialize_aux, lv.value_limbs[i])

ZeroInitConstraint(lv, nv, i) == FMul(lv.initialize_aux, nv.value_limbs[i])

\* The two constraints of limb (k + 1) \div 2: the odd k is the read
\* constraint, the even k the zero-initialization.
LimbConstraints(lv, nv) ==
    [k \in 1..(2 * VALUE_LIMBS) |->
        IF k % 2 = 1
        THEN constraint_transition(ReadConstraint(lv, nv, (k + 1) \div 2))
        ELSE constraint_transition(ZeroInitConstraint(lv, nv, k \div 2))]

MemAfterFilterConstraints(lv) ==
    [i \in 1..VALUE_LIMBS |->
        constraint(
            FMul(FMul(FSub(lv.mem_after_filter, lv.maybe_in_mem_after),
                      lv.preinitialized_segments),
                 lv.value_limbs[i]))]

eval_packed_generic(lv, nv) ==
    <<constraint(FMul(lv.filter, FSub(lv.filter, 1))),
      constraint(FMul(FSub(1, lv.filter), FSub(1, lv.is_read))),
      constraint(FMul(lv.context_first_change,
                      FSub(1, lv.context_first_change))),
      constraint(FMul(lv.segment_first_change,
                      FSub(1, lv.segment_first_change))),
      constraint(FMul(lv.virtual_first_change,
                      FSub(1, lv.virtual_first_change))),
      constraint(FMul(address_unchanged(lv), not_address_unchanged(lv))),
      constraint_transition(FMul(lv.segment_first_change,
                                 FSub(nv.addr_context, lv.addr_context))),
      constraint_transition(FMul(lv.virtual_first_change,
                                 FSub(nv.addr_context, lv.addr_context))),
      constraint_transition(FMul(lv.virtual_first_change,
                                 FSub(nv.addr_segment, lv.addr_segment))),
      constraint_transition(FMul(address_unchanged(lv),
                                 FSub(nv.addr_context, lv.addr_context))),
      constraint_transition(FMul(address_unchanged(lv),
                                 FSub(nv.addr_segment, lv.addr_segment))),
      constraint_transition(FMul(address_unchanged(lv),
                                 FSub(nv.addr_virtual, lv.addr_virtual))),
      constraint_transition(FSub(lv.range_check, computed_range_check(lv, nv))),
      constraint_transition(PreinitializedSegmentsAuxConstraint(lv, nv)),
      constraint_transition(PreinitializedSegmentsConstraint(lv, nv)),
      constraint_transition(InitializeAuxConstraint(lv, nv))>>
    \o LimbConstraints(lv, nv)
    \o <<constraint_transition(
             FAdd(lv.maybe_in_mem_after,
                  FMul(FMul(lv.filter, not_address_unchanged(lv)),
                       FSub(lv.is_stale, 1)))),
         constraint(FMul(lv.mem_after_filter, FSub(lv.mem_after_filter, 1)))>>
    \o MemAfterFilterConstraints(lv)
    \o <<constraint(FMul(lv.timestamp,
                         FSub(FMul(lv.timestamp, lv.timestamp_inv), 1))),
         constraint_first_row(lv.counter),
         constraint_transition(FSub(FSub(nv.counter, lv.counter), 1))>>

(***************************************************************************)
(* MemoryStark::eval_ext_circuit on a pair of rows (lv, nv): the gates the *)
(* circuit builder is asked for, evaluated on the values of the rows.      *)
(***************************************************************************)
one_extension == 1
add_extension(a, b) == FAdd(a, b)
sub_extension(a, b) == FSub(a, b)
mul_extension(a, b) == FMul(a, b)
add_const_extension(a, c) == FAdd(a, c)
mul_add_extension(a, b, c) == FAdd(FMul(a, b), c)

\* Mutant: a b + c where the gate computes a b - c.
MulSubExtensionAdds(a, b, c) == FAdd(FMul(a, b), c)

mul_sub_extension(a, b, c) == FSub(FMul(a, b), c)

mul_many_extension(terms) ==
    LET prod[k \in 0..Len(terms)] ==
            IF k = 0 THEN 1 ELSE mul_extension(prod[k - 1], terms[k])
    IN  prod[Len(terms)]

address_unchanged_circuit(lv) ==
    sub_extension(
        sub_extension(sub_extension(one_extension, lv.context_first_change),
                      lv.segment_first_change),
        lv.virtual_first_change)

not_address_unchanged_circuit(lv) ==
    sub_extension(one_extension, address_unchanged_circuit(lv))

computed_range_check_circuit(lv, nv) ==
    LET context_diff ==
            sub_extension(sub_extension(nv.addr_context, lv.addr_context),
                          one_extension)
        segment_diff ==
            sub_extension(sub_extension(nv.addr_segment, lv.addr_segment),
                          one_extension)
        segment_range_check ==
            mul_extension(lv.segment_first_change, segment_diff)
        virtual_diff ==
            sub_extension(sub_extension(nv.addr_virtual, lv.addr_virtual),
                          one_extension)
        virtual_range_check ==
            mul_extension(lv.virtual_first_change, virtual_diff)
        timestamp_diff == sub_extension(nv.timestamp, lv.timestamp)
        timestamp_range_check ==
            mul_extension(address_unchanged_circuit(lv), timestamp_diff)
    IN  add_extension(
            add_extension(
                mul_add_extension(lv.context_first_change, context_diff,
                                  segment_range_check),
                virtual_range_check),
            timestamp_range_check)

preinitialized_segments_aux_constraint(lv, nv) ==
    LET segment_accounts_list ==
            add_const_extension(nv.addr_segment,
                FNeg(from_canonical_usize(SEGMENT_ACCOUNTS_LINKED_LIST)))
        segment_storage_list ==
            add_const_extension(nv.addr_segment,
                FNeg(from_canonical_usize(SEGMENT_STORAGE_LINKED_LIST)))
        segment_aux_prod ==
            mul_extension(segment_accounts_list, segment_storage_list)
    IN  sub_extension(lv.preinitialized_segments_aux, segment_aux_prod)

preinitialized_segments_constraint(lv, nv) ==
    LET segment_code ==
            add_const_extension(nv.addr_segment,
                FNeg(from_canonical_usize(SEGMENT_CODE)))
        segment_trie_data ==
            add_const_extension(nv.addr_segment,
                FNeg(from_canonical_usize(SEGMENT_TRIE_DATA)))
        segment_prod ==
            mul_many_extension(<<segment_code, segment_trie_data,
                                 lv.preinitialized_segments_aux>>)
    IN  sub_extension(lv.preinitialized_segments, segment_prod)

new_first_read_constraint(lv, nv) ==
    LET computed_initialize_aux ==
            mul_extension(lv.preinitialized_segments,
                mul_extension(not_address_unchanged_circuit(lv), nv.is_read))
    IN  sub_extension(lv.initialize_aux, computed_initialize_aux)

read_constraint(lv, nv, i) ==
    LET value_diff == sub_extension(nv.value_limbs[i], lv.value_limbs[i])
        zero_if_read == mul_extension(address_unchanged_circuit(lv), value_diff)
    IN  mul_extension(nv.is_read, zero_if_read)

zero_init_constraint(lv, nv, i) ==
    mul_extension(lv.initialize_aux, nv.value_limbs[i])

LimbConstraintsCircuit(lv, nv) ==
    [k \in 1..(2 * VALUE_LIMBS) |->
        IF k % 2 = 1
        THEN constraint_transition(read_constraint(lv, nv, (k + 1) \div 2))
        ELSE constraint_transition(zero_init_constraint(lv, nv, k \div 2))]

MemAfterFilterConstraintsCircuit(lv) ==
    LET mem_after_filter_diff ==
            sub_extension(lv.mem_after_filter, lv.maybe_in_mem_after)
    IN  [i \in 1..VALUE_LIMBS |->
            constraint(
                mul_extension(mem_after_filter_diff,
                    mul_extension(lv.preinitialized_segments,
                                  lv.value_limbs[i])))]

maybe_in_mem_after_constraint(lv) ==
    LET rhs == mul_extension(lv.filter, not_address_unchanged_circuit(lv))
    IN  add_extension(lv.maybe_in_mem_after,
                      mul_sub_extension(rhs, lv.is_stale, rhs))

eval_ext_circuit(lv, nv) ==
    LET addr_context_diff == sub_extension(nv.addr_context, lv.addr_context)
        addr_segment_diff == sub_extension(nv.addr_segment, lv.addr_segment)
        addr_virtual_diff == sub_extension(nv.addr_virtual, lv.addr_virtual)
        unchanged == address_unchanged_circuit(lv)
    IN
    <<constraint(mul_sub_extension(lv.filter, lv.filter, lv.filter)),
      constraint(mul_extension(sub_extension(one_extension, lv.filter),
                               sub_extension(one_extension, lv.is_read))),
      constraint(mul_extension(lv.context_first_change,
                     sub_extension(one_extension, lv.context_first_change))),
      constraint(mul_extension(lv.segment_first_change,
                     sub_extension(one_extension, lv.segment_first_change))),
      constraint(mul_extension(lv.virtual_first_change,
                     sub_extension(one_extension, lv.virtual_first_change))),
      constraint(mul_extension(unchanged, not_address_unchanged_circuit(lv))),
      constraint_transition(
          mul_extension(lv.segment_first_change, addr_context_diff)),
      constraint_transition(
          mul_extension(lv.virtual_first_change, addr_context_diff)),
      constraint_transition(
          mul_extension(lv.virtual_first_change, addr_segment_diff)),
      constraint_transition(mul_extension(unchanged, addr_context_diff)),
      constraint_transition(mul_extension(unchanged, addr_segment_diff)),
      constraint_transition(mul_extension(unchanged, addr_virtual_diff)),
      constraint_transition(
          sub_extension(lv.range_check, computed_range_check_circuit(lv, nv))),
      constraint_transition(preinitialized_segments_aux_constraint(lv, nv)),
      constraint_transition(preinitialized_segments_constraint(lv, nv)),
      constraint_transition(new_first_read_constraint(lv, nv))>>
    \o LimbConstraintsCircuit(lv, nv)
    \o <<constraint_transition(maybe_in_mem_after_constraint(lv)),
         constraint(mul_sub_extension(lv.mem_after_filter, lv.mem_after_filter,
                                      lv.mem_after_filter))>>
    \o MemAfterFilterConstraintsCircuit(lv)
    \o <<constraint(mul_sub_extension(lv.timestamp,
                        mul_extension(lv.timestamp, lv.timestamp_inv),
                        lv.timestamp)),
         constraint_first_row(lv.counter),
         constraint_transition(
             sub_extension(sub_extension(nv.counter, lv.counter),
                           one_extension))>>

(***************************************************************************)
(* Inputs of generate_trace                                                *)
(***************************************************************************)
MaxValue == 5

\* Operations that differ in their place: active writes of MaxValue.
PlaceOps ==
    {MemoryOp(TRUE, t, MemoryAddress(c, s, v), Write, MaxValue) :
        c \in {0, MaxContext}, s \in {SEGMENT_CODE, SEGMENT_CONTEXT_METADATA},
        v \in {0, MaxVirt}, t \in {1, MaxTimestamp}}

\* Operations that differ in their content, at one address.
ContentOps ==
    {MemoryOp(f, t, MemoryAddress(0, SEGMENT_STACK, 0), k, v) :
        f \in BOOLEAN, t \in {1, MaxTimestamp}, k \in {Read, Write},
        v \in {0, MaxValue}}

\* Operations that end up in the final memory state or not: active writes
\* of zero or not, in a preinitialized segment or not, in two contexts.
FinalStateOps ==
    {MemoryOp(TRUE, 1, MemoryAddress(c, s, 0), Write, v) :
        c \in {0, MaxContext}, s \in {SEGMENT_CODE, SEGMENT_STACK},
        v \in {0, MaxValue}}

\* A context beyond the rows of a short trace.
FarContext == MaxContext + 2

\* Operations in context 0 and in the far context.
FarContextOps ==
    {MemoryOp(TRUE, 1, MemoryAddress(c, SEGMENT_STACK, 0), Write, MaxValue) :
        c \in {0, MaxContext, FarContext}}

\* Lists of stale contexts: one context, both, and one context twice.
StaleInputs == {<<0>>, <<MaxContext>>, <<0, MaxContext>>, <<0, 0>>}

SeqsUpTo(S, n) == UNION {[1..k -> S] : k \in 0..n}

\* Scenario A: a write of 5 to (0, 6, 100) at timestamp 1, read at timestamp 2.
ScenarioA ==
    <<MemoryOp(TRUE, 1, MemoryAddress(0, SEGMENT_CONTEXT_METADATA, 100), Write, 5),
      MemoryOp(TRUE, 2, MemoryAddress(0, SEGMENT_CONTEXT_METADATA, 100), Read, 5)>>

\* Scenario B: a single write to (0, 6, 100) at timestamp 1000.
ScenarioB ==
    <<MemoryOp(TRUE, 1000, MemoryAddress(0, SEGMENT_CONTEXT_METADATA, 100),
               Write, 5)>>

MemBeforeInputs ==
    {<<MemoryAddress(0, s, 0), v>> :
        s \in {SEGMENT_CODE, SEGMENT_STACK}, v \in {0, MaxValue}}

(***************************************************************************)
(* Frames given to the constraint evaluators: a pair of adjacent rows with *)
(* the columns the prover derives filled in as the constraints ask, and    *)
(* then one column off by one or none.                                     *)
(***************************************************************************)
EvalSegments ==
    {SEGMENT_CODE, SEGMENT_STACK, SEGMENT_CONTEXT_METADATA, SEGMENT_TRIE_DATA,
     SEGMENT_ACCOUNTS_LINKED_LIST, SEGMENT_STORAGE_LINKED_LIST}

\* (context_first_change, segment_first_change, virtual_first_change)
FlagChoices == {<<1, 0, 0>>, <<0, 1, 0>>, <<0, 0, 1>>, <<0, 0, 0>>, <<0, 1, 1>>}

FrameValues ==
    {ZeroLimbs,
     [j \in 1..VALUE_LIMBS |-> ValueLimb(MaxValue, j - 1)],
     [j \in 1..VALUE_LIMBS |-> IF j = VALUE_LIMBS THEN 1 ELSE 0]}

HonestFrame(flags, lseg, naddr, nread, nvalue, lvalue, lts, filter, is_read, is_stale) ==
    LET nrow == [DefaultRow EXCEPT
                    !.filter = 1,
                    !.timestamp = from_canonical_usize(MaxTimestamp),
                    !.is_read = nread,
                    !.addr_context = from_canonical_usize(naddr.context),
                    !.addr_segment = from_canonical_usize(naddr.segment),
                    !.addr_virtual = from_canonical_usize(naddr.virt),
                    !.value_limbs = nvalue,
                    !.counter = 1]
        lrow == [DefaultRow EXCEPT
                    !.filter = filter,
                    !.timestamp = from_canonical_usize(lts),
                    !.timestamp_inv = try_inverse_or_default(lts),
                    !.is_read = is_read,
                    !.addr_segment = from_canonical_usize(lseg),
                    !.value_limbs = lvalue,
                    !.context_first_change = flags[1],
                    !.segment_first_change = flags[2],
                    !.virtual_first_change = flags[3],
                    !.is_stale = is_stale]
        changed == FAdd(FAdd(flags[1], flags[2]), flags[3])
        aux == FMul(FSub(nrow.addr_segment, SEGMENT_ACCOUNTS_LINKED_LIST),
                    FSub(nrow.addr_segment, SEGMENT_STORAGE_LINKED_LIST))
        pre == FMul(FMul(FSub(nrow.addr_segment, SEGMENT_CODE),
                         FSub(nrow.addr_segment, SEGMENT_TRIE_DATA)), aux)
        maybe == FMul(FMul(filter, changed), FSub(1, is_stale))
    IN  <<[lrow EXCEPT
              !.range_check =
                  FAdd(FAdd(FAdd(
                      FMul(flags[1], FSub(nrow.addr_context, 1)),
                      FMul(flags[2], FSub(FSub(nrow.addr_segment,
                                               lrow.addr_segment), 1))),
                      FMul(flags[3], FSub(nrow.addr_virtual, 1))),
                      FMul(FSub(1, changed),
                           FSub(nrow.timestamp, lrow.timestamp))),
              !.preinitialized_segments_aux = aux,
              !.preinitialized_segments = pre,
              !.initialize_aux = FMul(FMul(pre, changed), nread),
              !.maybe_in_mem_after = maybe,
              !.mem_after_filter = maybe],
          nrow>>

\* The frame with one column of its current row off by one.
TamperedFrame(frame, column) ==
    IF column = "none" THEN frame
    ELSE <<[frame[1] EXCEPT ![column] = FAdd(@, 1)], frame[2]>>

AddressTampers ==
    {"none", "range_check", "preinitialized_segments_aux",
     "preinitialized_segments", "initialize_aux", "context_first_change"}

ContentTampers ==
    {"none", "filter", "maybe_in_mem_after", "mem_after_filter",
     "timestamp_inv", "counter", "is_read"}

\* Frames that vary the addresses and the flags.
AddressFrames ==
    {TamperedFrame(
         HonestFrame(flags, lseg, MemoryAddress(c, s, v), nread, nvalue,
                     ZeroLimbs, 1, 1, 1, 0), t) :
        flags \in FlagChoices,
        lseg \in {SEGMENT_CODE, SEGMENT_CONTEXT_METADATA},
        c \in 0..MaxContext, s \in EvalSegments, v \in {0, MaxVirt},
        nread \in {0, 1}, nvalue \in FrameValues, t \in AddressTampers}

\* Frames that vary what the rows hold, at one address or two.
ContentFrames ==
    {TamperedFrame(
         HonestFrame(flags, s, MemoryAddress(0, s, flags[3]), nread, nvalue,
                     lvalue, lts, filter, is_read, is_stale), t) :
        flags \in {<<0, 0, 0>>, <<0, 0, 1>>},
        s \in {SEGMENT_CODE, SEGMENT_CONTEXT_METADATA},
        nread \in {0, 1}, nvalue \in FrameValues,
        lvalue \in {ZeroLimbs,
                    [j \in 1..VALUE_LIMBS |-> ValueLimb(MaxValue, j - 1)]},
        lts \in {0, 1}, filter \in {0, 1}, is_read \in {0, 1},
        is_stale \in {0, 1}, t \in ContentTampers}

\* The height of the trace the frames are taken from.
FrameHeight == 8

\* A pair of active rows, the next one a write, with the derived columns
\* of the current row filled in as the constraints ask.
OrderingFrame(flags, laddr, lts, naddr, nts) ==
    LET nrow == [DefaultRow EXCEPT
                    !.filter = 1, !.timestamp = nts, !.is_read = 0,
                    !.addr_context = naddr.context,
                    !.addr_segment = naddr.segment,
                    !.addr_virtual = naddr.virt,
                    !.counter = 1]
        changed == FAdd(FAdd(flags[1], flags[2]), flags[3])
        aux == FMul(FSub(naddr.segment, SEGMENT_ACCOUNTS_LINKED_LIST),
                    FSub(naddr.segment, SEGMENT_STORAGE_LINKED_LIST))
        pre == FMul(FMul(FSub(naddr.segment, SEGMENT_CODE),
                         FSub(naddr.segment, SEGMENT_TRIE_DATA)), aux)
    IN  <<[DefaultRow EXCEPT
              !.filter = 1, !.timestamp = lts,
              !.timestamp_inv = try_inverse_or_default(lts),
              !.is_read = 0,
              !.addr_context = laddr.context,
              !.addr_segment = laddr.segment,
              !.addr_virtual = laddr.virt,
              !.context_first_change = flags[1],
              !.segment_first_change = flags[2],
              !.virtual_first_change = flags[3],
              !.range_check =
                  FAdd(FAdd(FAdd(
                      FMul(flags[1], FSub(FSub(naddr.context, laddr.context), 1)),
                      FMul(flags[2], FSub(FSub(naddr.segment, laddr.segment), 1))),
                      FMul(flags[3], FSub(FSub(naddr.virt, laddr.virt), 1))),
                      FMul(FSub(1, changed), FSub(nts, lts))),
              !.preinitialized_segments_aux = aux,
              !.preinitialized_segments = pre,
              !.maybe_in_mem_after = changed,
              !.mem_after_filter = changed],
          nrow>>

\* Frames that vary how the next row is placed after the current one.
OrderingFrames ==
    {OrderingFrame(flags, MemoryAddress(lc, ls, lvirt), lts,
                   MemoryAddress(nc, ns, nvirt), nts) :
        flags \in FlagChoices,
        lc \in {0, FieldOrder - 1}, ls \in {SEGMENT_CODE, SEGMENT_STACK},
        lvirt \in {1, FieldOrder - 1}, lts \in {1, FieldOrder - 1},
        nc \in {0, 1}, ns \in {SEGMENT_CODE, SEGMENT_STACK},
        nvirt \in {0, 2}, nts \in {0, 2}}

EvalFrames == AddressFrames \cup ContentFrames \cup OrderingFrames

(***************************************************************************)
(* State                                                                   *)
(***************************************************************************)
VARIABLES
    pc,                 \* the step generate_trace is at
    input_ops,          \* the memory_ops argument as the caller passed it
    mem_before_values,  \* the mem_before_values argument
    stale_contexts,     \* the stale_contexts argument
    memory_ops,         \* the operation list being built
    unpadded_length,    \* the length fill_gaps left
    trace_rows,         \* the rows of the trace
    mem_after_values,   \* the extracted final memory state
    panic,              \* "none", or the assertion or check that aborted
    lv, nv,             \* the frame given to the constraint evaluators
    packed,             \* the constraints eval_packed_generic yielded
    circuit,            \* the constraints eval_ext_circuit yielded
    block_count,        \* prove(): the length of block_prover_inputs
    previous_proof,     \* prove(): the caller's previous proof, or NoProof
    test_only,          \* prover_config.test_only
    proof_output_dir,   \* TRUE when proof_output_dir is Some
    stage,              \* where the future of each block is
    failure,            \* what each block failed at, or "none"
    previous,           \* the proof each block got from its predecessor
    block_proof_prev,   \* the `prev` each block's BlockProof was given
    channel,            \* the proof sent on each block's channel, or NoProof
    tx_alive,           \* the sender of each block's channel is not dropped
    rx_alive,           \* the receiver of each block's channel is not dropped
    output,             \* the (block number, proof) each future returned
    results,            \* what prove() collected
    returned            \* "pending", or how prove() returned: "ok", "err"

vars == <<pc, input_ops, mem_before_values, stale_contexts, memory_ops,
          unpadded_length, trace_rows, mem_after_values, panic,
          lv, nv, packed, circuit,
          block_count, previous_proof, test_only, proof_output_dir, stage,
          failure, previous, block_proof_prev, channel, tx_alive, rx_alive,
          output, results, returned>>

proverVars == <<block_count, previous_proof, test_only, proof_output_dir,
                stage, failure, previous, block_proof_prev, channel,
                tx_alive, rx_alive, output, results, returned>>

\* No proof: `None`, an empty channel.
NoProof == 0
\* The proof the caller of prove() supplies.
CallerProof == 0 - 1
\* The proof generated for block i (b_height = i).
ProofOf(i) == i

\* prove() is not running.
ProverIdle ==
    /\ block_count = 0
    /\ previous_proof = NoProof
    /\ test_only = FALSE
    /\ proof_output_dir = FALSE
    /\ stage = <<>>
    /\ failure = <<>>
    /\ previous = <<>>
    /\ block_proof_prev = <<>>
    /\ channel = <<>>
    /\ tx_alive = <<>>
    /\ rx_alive = <<>>
    /\ output = <<>>
    /\ results = <<>>
    /\ returned = "pending"

inputs == <<input_ops, mem_before_values, stale_contexts>>
evalVars == <<lv, nv, packed, circuit>>

InitInputs ==
    \/ /\ input_ops \in SeqsUpTo(PlaceOps, MaxOps) \cup SeqsUpTo(ContentOps, MaxOps)
                         \cup {ScenarioA, ScenarioB}
       /\ mem_before_values = <<>>
       /\ stale_contexts = <<>>
    \/ /\ input_ops \in SeqsUpTo(ContentOps, MaxOps - 1)
       /\ mem_before_values \in {<<m>> : m \in MemBeforeInputs}
       /\ stale_contexts = <<>>
    \/ /\ input_ops \in SeqsUpTo(FinalStateOps, MaxOps)
       /\ mem_before_values = <<>>
       /\ stale_contexts \in StaleInputs
    \/ /\ input_ops \in SeqsUpTo(FarContextOps, MaxOps)
       /\ mem_before_values = <<>>
       /\ stale_contexts \in {<<>>, <<FarContext>>}

Init ==
    /\ InitInputs
    /\ pc = "start"
    /\ memory_ops = <<>>
    /\ unpadded_length = 0
    /\ trace_rows = <<>>
    /\ mem_after_values = <<>>
    /\ panic = "none"
    /\ lv = DefaultRow
    /\ nv = DefaultRow
    /\ packed = <<>>
    /\ circuit = <<>>
    /\ ProverIdle

(***************************************************************************)
(* MemoryStark::generate_trace, step by step                               *)
(***************************************************************************)
\* Mutant: the mem_before write at timestamp 1.
MemBeforeOpAtOne(m) == MemoryOp(TRUE, 1, m[1], Write, m[2])

MemBeforeOp(m) == MemoryOp(TRUE, 0, m[1], Write, m[2])

\* First, push `mem_before` operations.
PushMemBefore ==
    /\ pc = "start"
    /\ memory_ops' = input_ops \o
           [i \in 1..Len(mem_before_values) |-> MemBeforeOp(mem_before_values[i])]
    /\ pc' = "fill_gaps"
    /\ UNCHANGED <<inputs, proverVars, unpadded_length, trace_rows, mem_after_values,
                   panic, evalVars>>

\* generate_trace_row_major: sort, fill_gaps, unpadded_length.
\* fill_gaps indexes memory_ops[0]: an empty list panics.
FillGaps ==
    /\ pc = "fill_gaps"
    /\ IF memory_ops = <<>>
       THEN /\ panic' = "index out of bounds"
            /\ pc' = "panicked"
            /\ UNCHANGED <<memory_ops, unpadded_length>>
       ELSE /\ memory_ops' = fill_gaps(sort_by_key(memory_ops))
            /\ unpadded_length' = Len(memory_ops')
            /\ pc' = "pad"
            /\ UNCHANGED panic
    /\ UNCHANGED <<inputs, proverVars, trace_rows, mem_after_values, evalVars>>

\* generate_trace_row_major: sort, pad_memory_ops, sort.
PadMemoryOps ==
    /\ pc = "pad"
    /\ memory_ops' = sort_by_key(pad_memory_ops(sort_by_key(memory_ops)))
    /\ pc' = "rows"
    /\ UNCHANGED <<inputs, proverVars, unpadded_length, trace_rows, mem_after_values,
                   panic, evalVars>>

\* generate_trace_row_major: into_row on every operation.
IntoRows ==
    /\ pc = "rows"
    /\ trace_rows' = [i \in 1..Len(memory_ops) |-> into_row(memory_ops[i])]
    /\ pc' = "flags"
    /\ UNCHANGED <<inputs, proverVars, memory_ops, unpadded_length, mem_after_values,
                   panic, evalVars>>

\* generate_trace_row_major: generate_first_change_flags_and_rc, whose
\* assertion may fail.
GenerateFlagsAndRc ==
    /\ pc = "flags"
    /\ LET rows == FlagsAndRcRows(trace_rows)
       IN  IF RangeCheckAssertion(rows)
           THEN /\ trace_rows' = rows
                /\ pc' = "stale"
                /\ UNCHANGED panic
           ELSE /\ panic' = "Range check is too large"
                /\ pc' = "panicked"
                /\ UNCHANGED trace_rows
    /\ UNCHANGED <<inputs, proverVars, memory_ops, unpadded_length, mem_after_values,
                   evalVars>>

\* debug_assert!: the stale contexts are pairwise distinct.
StaleContextsUnique ==
    \A i, j \in 1..Len(stale_contexts) :
        stale_contexts[i] = stale_contexts[j] => i = j

\* Mutant: only the first stale context is marked.
InsertFirstStaleContext(rows, stale) ==
    [r \in 1..Len(rows) |->
        IF stale # <<>> /\ stale[1] = r - 1
        THEN [rows[r] EXCEPT
                 !.stale_contexts = FAdd(from_canonical_usize(r - 1), 1),
                 !.is_pruned = 1]
        ELSE rows[r]]

\* The rows after the loop of insert_stale_contexts (every ctx in range).
insert_stale_contexts(rows, stale) ==
    [r \in 1..Len(rows) |->
        IF \E k \in 1..Len(stale) : stale[k] = r - 1
        THEN [rows[r] EXCEPT
                 !.stale_contexts = FAdd(from_canonical_usize(r - 1), 1),
                 !.is_pruned = 1]
        ELSE rows[r]]

\* insert_stale_contexts: the debug assertion is compiled in debug builds
\* only, so a list with a duplicate either panics or goes through;
\* trace_rows[ctx] panics when ctx is not a row index.
InsertStaleContexts ==
    /\ pc = "stale"
    /\ \/ /\ ~StaleContextsUnique
          /\ panic' = "Stale contexts are not unique."
          /\ pc' = "panicked"
          /\ UNCHANGED trace_rows
       \/ /\ \E k \in 1..Len(stale_contexts) :
                 stale_contexts[k] >= Len(trace_rows)
          /\ panic' = "index out of bounds"
          /\ pc' = "panicked"
          /\ UNCHANGED trace_rows
       \/ /\ \A k \in 1..Len(stale_contexts) :
                 stale_contexts[k] < Len(trace_rows)
          /\ trace_rows' = insert_stale_contexts(trace_rows, stale_contexts)
          /\ pc' = "col_major"
          /\ UNCHANGED panic
    /\ UNCHANGED <<inputs, proverVars, memory_ops, unpadded_length, mem_after_values,
                   evalVars>>

(***************************************************************************)
(* MemoryStark::generate_trace_col_major                                   *)
(***************************************************************************)
\* Mutant: the last row bumps `frequencies` for its range_check only.
FrequencyBumpsNotForLastRow(rows, i) ==
    <<rows[i + 1].range_check>> \o
    (IF (rows[i + 1].context_first_change = 1
         \/ rows[i + 1].segment_first_change = 1) /\ i < Len(rows) - 1
     THEN <<rows[i + 2].addr_virtual>>
     ELSE <<>>)

\* The indices of `frequencies` that row i (from 0) bumps.
FrequencyBumps(rows, i) ==
    LET height == Len(rows)
        row == rows[i + 1]
    IN  <<row.range_check>> \o
        (IF row.context_first_change = 1 \/ row.segment_first_change = 1
         THEN IF i < height - 1
              THEN <<rows[i + 2].addr_virtual>>
              ELSE <<0>>
         ELSE <<>>)

\* Mutant: no row is found stale.
RowNeverStale(rows, i) == FALSE

\* Row i (from 0) is found stale.
RowIsStale(rows, i) ==
    LET addr_ctx == rows[i + 1].addr_context
    IN  FAdd(addr_ctx, 1) = rows[addr_ctx + 1].stale_contexts

\* Mutant: the context must be below the last row index.
ColMajorIndicesInRangeButLast(rows) ==
    \A i \in 0..(Len(rows) - 1) :
        /\ \A k \in 1..Len(FrequencyBumps(rows, i)) :
               FrequencyBumps(rows, i)[k] < Len(rows)
        /\ rows[i + 1].addr_context < Len(rows) - 1

\* Every index the loop uses is a row index.
ColMajorIndicesInRange(rows) ==
    \A i \in 0..(Len(rows) - 1) :
        /\ \A k \in 1..Len(FrequencyBumps(rows, i)) :
               FrequencyBumps(rows, i)[k] < Len(rows)
        /\ rows[i + 1].addr_context < Len(rows)

\* Mutant: every value counts as non-zero.
NoValueIsZero(row) == TRUE

IsNonZeroValue(row) == \E limb \in 1..VALUE_LIMBS : row.value_limbs[limb] # 0

generate_trace_col_major(rows) ==
    LET height == Len(rows)
        candidate(i) ==
            /\ ~RowIsStale(rows, i)
            /\ rows[i + 1].filter = 1
            /\ \/ rows[i + 1].context_first_change = 1
               \/ rows[i + 1].segment_first_change = 1
               \/ rows[i + 1].virtual_first_change = 1
    IN  [r \in 1..height |->
            [rows[r] EXCEPT
                !.counter = from_canonical_usize(r - 1),
                !.frequencies = from_canonical_usize(
                    Cardinality({<<i, k>> \in (0..(height - 1)) \X (1..2) :
                        /\ k <= Len(FrequencyBumps(rows, i))
                        /\ FrequencyBumps(rows, i)[k] = r - 1})),
                !.is_stale = from_bool(RowIsStale(rows, r - 1)),
                !.stale_context_frequencies = from_canonical_usize(
                    Cardinality({i \in 0..(height - 1) :
                        /\ RowIsStale(rows, i)
                        /\ rows[i + 1].addr_context = r - 1})),
                !.maybe_in_mem_after = from_bool(candidate(r - 1)),
                !.mem_after_filter = from_bool(
                    /\ candidate(r - 1)
                    /\ \/ IsNonZeroValue(rows[r])
                       \/ rows[r].addr_segment \in PREINITIALIZED_SEGMENTS_INDICES)]]

\* Extract `MemoryAfterStark` values: one entry per row with mem_after_filter.
MemAfterEntry(row) ==
    <<1, row.addr_context, row.addr_segment, row.addr_virtual>> \o row.value_limbs

\* Mutant: one entry per active row.
MemAfterValuesOfActiveRows(rows) ==
    LET kept == {r \in 1..Len(rows) : rows[r].filter = 1}
    IN  [k \in 1..Cardinality(kept) |->
            MemAfterEntry(rows[CHOOSE r \in kept :
                Cardinality({q \in kept : q <= r}) = k])]

MemAfterValues(rows) ==
    LET kept == {r \in 1..Len(rows) : rows[r].mem_after_filter = 1}
    IN  [k \in 1..Cardinality(kept) |->
            MemAfterEntry(rows[CHOOSE r \in kept :
                Cardinality({q \in kept : q <= r}) = k])]

\* generate_trace: the column-major pass and the extraction of the final
\* memory state; an index that is no row index panics.
GenerateTraceColMajor ==
    /\ pc = "col_major"
    /\ IF ColMajorIndicesInRange(trace_rows)
       THEN /\ trace_rows' = generate_trace_col_major(trace_rows)
            /\ mem_after_values' = MemAfterValues(trace_rows')
            /\ pc' = "done"
            /\ UNCHANGED panic
       ELSE /\ panic' = "index out of bounds"
            /\ pc' = "panicked"
            /\ UNCHANGED <<trace_rows, mem_after_values>>
    /\ UNCHANGED <<inputs, proverVars, memory_ops, unpadded_length, evalVars>>

Next ==
    \/ PushMemBefore
    \/ FillGaps
    \/ PadMemoryOps
    \/ IntoRows
    \/ GenerateFlagsAndRc
    \/ InsertStaleContexts
    \/ GenerateTraceColMajor

Spec == Init /\ [][Next]_vars

(***************************************************************************)
(* The constraint evaluators on a frame: the checking mode and the circuit *)
(* mode are run on the same pair of rows, in either order.                 *)
(***************************************************************************)
InitEval ==
    /\ pc = "eval"
    /\ input_ops = <<>>
    /\ mem_before_values = <<>>
    /\ stale_contexts = <<>>
    /\ memory_ops = <<>>
    /\ unpadded_length = 0
    /\ trace_rows = <<>>
    /\ mem_after_values = <<>>
    /\ panic = "none"
    /\ \E frame \in EvalFrames : lv = frame[1] /\ nv = frame[2]
    /\ packed = <<>>
    /\ circuit = <<>>
    /\ ProverIdle

EvalPackedGeneric ==
    /\ pc = "eval"
    /\ packed = <<>>
    /\ packed' = eval_packed_generic(lv, nv)
    /\ UNCHANGED <<pc, inputs, proverVars, memory_ops, unpadded_length, trace_rows,
                   mem_after_values, panic, lv, nv, circuit>>

EvalExtCircuit ==
    /\ pc = "eval"
    /\ circuit = <<>>
    /\ circuit' = eval_ext_circuit(lv, nv)
    /\ UNCHANGED <<pc, inputs, proverVars, memory_ops, unpadded_length, trace_rows,
                   mem_after_values, panic, lv, nv, packed>>

NextEval ==
    \/ EvalPackedGeneric
    \/ EvalExtCircuit

SpecEval == InitEval /\ [][NextEval]_vars

(***************************************************************************)
(* prove() of zero_bin/prover/src/lib.rs.  The loop builds one future per  *)
(* block, in input order; block i sends its proof on the one-shot channel  *)
(* (tx, rx) of its iteration, and the future of block i + 1 holds rx as    *)
(* its previous proof (the rx of the last block stays in `prev`).  The     *)
(* futures then run interleaved under results.try_collect().               *)
(***************************************************************************)
traceVars == <<pc, input_ops, mem_before_values, stale_contexts, memory_ops,
               unpadded_length, trace_rows, mem_after_values, panic,
               lv, nv, packed, circuit>>

Blocks == 1..block_count

\* The state when prove() has built its futures and nothing has run.
InitProve ==
    /\ pc = "prove"
    /\ input_ops = <<>>
    /\ mem_before_values = <<>>
    /\ stale_contexts = <<>>
    /\ memory_ops = <<>>
    /\ unpadded_length = 0
    /\ trace_rows = <<>>
    /\ mem_after_values = <<>>
    /\ panic = "none"
    /\ lv = DefaultRow
    /\ nv = DefaultRow
    /\ packed = <<>>
    /\ circuit = <<>>
    /\ block_count \in 0..MaxBlocks
    /\ previous_proof \in {NoProof, CallerProof}
    /\ test_only \in BOOLEAN
    /\ proof_output_dir \in BOOLEAN
    /\ stage = [i \in Blocks |-> "input"]
    /\ failure = [i \in Blocks |-> "none"]
    /\ previous = [i \in Blocks |-> NoProof]
    /\ block_proof_prev = [i \in Blocks |-> NoProof]
    /\ channel = [i \in Blocks |-> NoProof]
    /\ tx_alive = [i \in Blocks |-> TRUE]
    /\ rx_alive = [i \in Blocks |-> TRUE]
    /\ output = [i \in Blocks |-> <<>>]
    /\ results = <<>>
    /\ returned = "pending"

\* The future of block i ends with an error: what it holds is dropped, the
\* sender of its own channel and the receiver of its predecessor's.
Fail(i, why) ==
    /\ stage' = [stage EXCEPT ![i] = "failed"]
    /\ failure' = [failure EXCEPT ![i] = why]
    /\ tx_alive' = [tx_alive EXCEPT ![i] = FALSE]
    /\ rx_alive' = [j \in Blocks |-> IF j = i - 1 THEN FALSE ELSE rx_alive[j]]
    /\ UNCHANGED <<previous, block_proof_prev, channel, output>>

\* The future of block i moves on to the next stage.
Advance(i, next_stage) ==
    /\ stage' = [stage EXCEPT ![i] = next_stage]
    /\ UNCHANGED <<failure, previous, block_proof_prev, channel, tx_alive,
                   rx_alive, output>>

\* Mutant: a failed block is left out of the collection.
TryCollectSkippingErrors(stages) ==
    IF \A i \in DOMAIN stages : stages[i] \in {"done", "failed"} THEN "ok"
    ELSE "pending"

\* FuturesOrdered with try_collect: the outputs are taken in the order the
\* futures were pushed, and the first error in that order ends it.
try_collect(stages) ==
    IF \A i \in DOMAIN stages : stages[i] = "done" THEN "ok"
    ELSE IF \E k \in DOMAIN stages :
                /\ stages[k] = "failed"
                /\ \A j \in 1..(k - 1) : stages[j] = "done"
    THEN "err"
    ELSE "pending"

\* The future of a block is polled only while prove() is inside
\* try_collect: the poll that completes the collection returns at once.
Polled == returned = "pending" /\ try_collect(stage) = "pending"

\* let block = block_prover_input.await?;
GetProverInput(i) ==
    /\ Polled
    /\ stage[i] = "input"
    /\ \/ Advance(i, "prove")
       \/ Fail(i, "input")
    /\ UNCHANGED <<traceVars, block_count, previous_proof, test_only,
                   proof_output_dir, results, returned>>

\* BlockProverInput::prove up to the batch proof (prove_test: up to the
\* end of the simulation), each of whose steps may fail.
ProveBatches(i) ==
    /\ Polled
    /\ stage[i] = "prove"
    /\ \/ Advance(i, "previous")
       \/ Fail(i, "prove")
    /\ UNCHANGED <<traceVars, block_count, previous_proof, test_only,
                   proof_output_dir, results, returned>>

\* What `previous` resolves to for block i: the caller's proof for the first
\* block, the content of the predecessor's channel for the others.
PreviousResolved(i) == IF i = 1 THEN previous_proof ELSE channel[i - 1]

\* Mutant: the receiver polled as if it were always ready.
PreviousReadyAtOnce(i) == TRUE

\* `previous` is ready with a proof (or is None).
PreviousReady(i) == IF i = 1 THEN TRUE ELSE channel[i - 1] # NoProof

\* The sender of the predecessor's channel was dropped without sending.
PreviousClosed(i) ==
    IF i = 1 THEN FALSE ELSE channel[i - 1] = NoProof /\ ~tx_alive[i - 1]

\* let prev = match previous { Some(it) => Some(it.await?), None => None };
AwaitPrevious(i) ==
    /\ Polled
    /\ stage[i] = "previous"
    /\ \/ /\ PreviousReady(i)
          /\ ~PreviousClosed(i)
          /\ stage' = [stage EXCEPT ![i] = "block_proof"]
          /\ previous' = [previous EXCEPT ![i] = PreviousResolved(i)]
          /\ rx_alive' =
                 [j \in Blocks |-> IF j = i - 1 THEN FALSE ELSE rx_alive[j]]
          /\ UNCHANGED <<failure, block_proof_prev, channel, tx_alive, output>>
       \/ /\ PreviousClosed(i)
          /\ Fail(i, "previous")
    /\ UNCHANGED <<traceVars, block_count, previous_proof, test_only,
                   proof_output_dir, results, returned>>

\* ops::BlockProof { prev, .. } run on the runtime; prove_test binds the
\* proof it awaited to _prev and returns a dummy proof made from nothing.
GenerateBlockProof(i) ==
    /\ Polled
    /\ stage[i] = "block_proof"
    /\ \/ /\ stage' = [stage EXCEPT ![i] = "write"]
          /\ block_proof_prev' = [block_proof_prev EXCEPT ![i] =
                 IF test_only THEN NoProof ELSE previous[i]]
          /\ UNCHANGED <<failure, previous, channel, tx_alive, rx_alive,
                         output>>
       \/ Fail(i, "prove")
    /\ UNCHANGED <<traceVars, block_count, previous_proof, test_only,
                   proof_output_dir, results, returned>>

\* write_proof_to_dir is called, and may fail, when there is a directory.
WriteMayFail == proof_output_dir

\* The closure after the proof: write it to the directory or keep it for
\* the result, then tx.send(proof), which fails when the receiver is gone.
WriteAndSend(i) ==
    /\ Polled
    /\ stage[i] = "write"
    /\ \/ /\ WriteMayFail
          /\ Fail(i, "write")
       \/ /\ ~rx_alive[i]
          /\ Fail(i, "send")
       \/ /\ rx_alive[i]
          /\ channel' = [channel EXCEPT ![i] = ProofOf(i)]
          /\ tx_alive' = [tx_alive EXCEPT ![i] = FALSE]
          /\ stage' = [stage EXCEPT ![i] = "done"]
          /\ output' = [output EXCEPT ![i] =
                 <<i, IF proof_output_dir THEN NoProof ELSE ProofOf(i)>>]
          /\ UNCHANGED <<failure, previous, block_proof_prev, rx_alive>>
    /\ UNCHANGED <<traceVars, block_count, previous_proof, test_only,
                   proof_output_dir, results, returned>>

\* results.try_collect().await returns; the futures still there are dropped.
TryCollect ==
    /\ pc = "prove"
    /\ returned = "pending"
    /\ try_collect(stage) # "pending"
    /\ returned' = try_collect(stage)
    /\ results' = IF try_collect(stage) = "ok"
                  THEN [k \in 1..Cardinality({i \in Blocks : stage[i] = "done"}) |->
                           output[CHOOSE i \in Blocks :
                               /\ stage[i] = "done"
                               /\ Cardinality({j \in 1..i : stage[j] = "done"}) = k]]
                  ELSE <<>>
    /\ UNCHANGED <<traceVars, block_count, previous_proof, test_only,
                   proof_output_dir, stage, failure, previous,
                   block_proof_prev, channel, tx_alive, rx_alive, output>>

NextProve ==
    \/ \E i \in Blocks : GetProverInput(i)
    \/ \E i \in Blocks : ProveBatches(i)
    \/ \E i \in Blocks : AwaitPrevious(i)
    \/ \E i \in Blocks : GenerateBlockProof(i)
    \/ \E i \in Blocks : WriteAndSend(i)
    \/ TryCollect

SpecProve == InitProve /\ [][NextProve]_vars

(***************************************************************************)
(* generate_trace as a function of its arguments, on the path where        *)
(* nothing panics: <<rows, mem_after_values, unpadded_length>>.            *)
(***************************************************************************)
generate_trace_row_major(ops) ==
    LET filled == fill_gaps(sort_by_key(ops))
        padded == sort_by_key(pad_memory_ops(sort_by_key(filled)))
        rows == [i \in 1..Len(padded) |-> into_row(padded[i])]
    IN  <<FlagsAndRcRows(rows), Len(filled)>>

generate_trace(ops, mem_before, stale) ==
    LET all == ops \o [i \in 1..Len(mem_before) |-> MemBeforeOp(mem_before[i])]
        row_major == generate_trace_row_major(all)
        rows == generate_trace_col_major(
                    insert_stale_contexts(row_major[1], stale))
    IN  <<rows, MemAfterValues(rows), row_major[2]>>

(***************************************************************************)
(* MemoryStark::lookups: the values each lookup looks up in its table      *)
(* column, as pairs (row, value); a filter of 1 selects the row.           *)
(***************************************************************************)
\* range_check of every row, and the next row's addr_virtual (the first
\* row's for the last row) where context_first_change + segment_first_change
\* is 1, looked up in `counter` with multiplicities `frequencies`.
RangeCheckLookup(rows) ==
    {<<"range_check", i, rows[i].range_check>> : i \in 1..Len(rows)}
    \cup
    {<<"addr_virtual", i, rows[NextIndex(i, Len(rows))].addr_virtual>> :
        i \in {j \in 1..Len(rows) :
                  FAdd(rows[j].context_first_change,
                       rows[j].segment_first_change) = 1}}

\* addr_context + 1 where is_stale is 1, looked up in `stale_contexts` with
\* multiplicities `stale_context_frequencies`.
StaleContextLookup(rows) ==
    {<<"addr_context", i, FAdd(rows[i].addr_context, 1)>> :
        i \in {j \in 1..Len(rows) : rows[j].is_stale = 1}}

(***************************************************************************)
(* Vocabulary of the properties                                            *)
(***************************************************************************)
\* The operations generate_trace works on: the input and mem_before.
AllInputOps ==
    input_ops \o
    [i \in 1..Len(mem_before_values) |-> MemBeforeOp(mem_before_values[i])]

\* memory_ops is the gap-filled list, not yet sorted and padded.
GapsFilled == pc = "pad"

\* memory_ops is the final list: gap-filled, padded and sorted.
OpsFinal ==
    \/ pc \in {"rows", "flags", "stale", "col_major", "done"}
    \/ pc = "panicked" /\ panic = "Range check is too large"

\* memory_ops is the final list and no row has been built from it yet.
JustPadded == pc = "rows"

\* trace_rows carries the first-change flags and range_check.
FlagsGenerated == pc \in {"stale", "col_major", "done"}

\* The number of dummy operations fill_gaps inserted.
GapDummyCount == unpadded_length - Len(AllInputOps)

OpsBag(ops) ==
    [x \in {ops[i] : i \in 1..Len(ops)} |->
        Cardinality({i \in 1..Len(ops) : ops[i] = x})]

\* n is a power of two (up to 2^20).
PowerOfTwo(n) == \E k \in 0..20 : Pow2(k) = n

RowAddress(row) == <<row.addr_context, row.addr_segment, row.addr_virtual>>

DistinctKeys(ops) ==
    \A i, j \in 1..Len(ops) :
        sorting_key(ops[i]) = sorting_key(ops[j]) => i = j

\* generate_trace has returned its trace.
TraceDone == pc = "done"

\* The contexts the caller gave as stale.
StaleContextSet == {stale_contexts[k] : k \in 1..Len(stale_contexts)}

\* The row after row i, the first row after the last.
NextRow(i) == trace_rows[NextIndex(i, Len(trace_rows))]

\* The evaluators' results on the frame.
PackedEvaluated == pc = "eval" /\ packed # <<>>
BothEvaluated == pc = "eval" /\ packed # <<>> /\ circuit # <<>>

\* Every transition constraint of the checking mode vanishes on the frame.
TransitionsVanish ==
    \A k \in 1..Len(packed) :
        packed[k].kind = "constraint_transition" => packed[k].value = 0

\* Exactly one of the three first-change flags is set.
ExactlyOneFirstChange ==
    /\ {lv.context_first_change, lv.segment_first_change,
        lv.virtual_first_change} = {0, 1}
    /\ lv.context_first_change + lv.segment_first_change
          + lv.virtual_first_change = 1

NextSegmentPreinitialized ==
    nv.addr_segment \in PREINITIALIZED_SEGMENTS_INDICES

\* Positions in the yielded sequence: the three constraints that validate
\* preinitialized_segments_aux, preinitialized_segments and initialize_aux,
\* and the zero-initialization constraint of limb i.
AuxValidationPositions == {14, 15, 16}
ZeroInitPosition(i) == 16 + 2 * i

C2_PaddingAppended ==
    [][pc = "pad" =>
        LET n == Len(memory_ops)
            total == Len(memory_ops')
            last == memory_ops'[n]
        IN  /\ total - n >= 1
            /\ PowerOfTwo(total)
            /\ total > n
            /\ total <= 2 * n
            /\ OpsBag(SubSeq(memory_ops', 1, n)) = OpsBag(memory_ops)
            /\ \A i \in 1..n :
                   KeyLeq(sorting_key(memory_ops'[i]), sorting_key(last))
            /\ \A i \in (n + 1)..total :
                   /\ memory_ops'[i].filter = FALSE
                   /\ memory_ops'[i].kind = Read
                   /\ memory_ops'[i].value = 0
                   /\ memory_ops'[i].address.context = last.address.context
                   /\ memory_ops'[i].address.segment = last.address.segment
                   /\ memory_ops'[i].address.virt = last.address.virt + 1
                   /\ memory_ops'[i].timestamp = last.timestamp + 1]_vars

\* A list whose length 4 is a power of two already is padded to 8.
C2_Witness == pc = "rows" /\ unpadded_length = 4 /\ Len(memory_ops) = 8

(***************************************************************************)
(* C3.  In the final list the sort key of row i+1 is strictly greater than *)
(* that of row i, for every i but the wraparound.                          *)
(* As stated (C3_StrictlyIncreasing) this fails: the padding rows are      *)
(* copies of one operation.  What holds (C3_SortedStrictBeforePadding):    *)
(* the keys never decrease, and when the keys of the input operations are  *)
(* pairwise distinct they strictly increase up to and including the first  *)
(* padding row.                                                            *)
(***************************************************************************)
C3_StrictlyIncreasing ==
    (OpsFinal /\ DistinctKeys(AllInputOps)) =>
        \A i \in 1..(Len(memory_ops) - 1) :
            KeyLess(sorting_key(memory_ops[i]), sorting_key(memory_ops[i + 1]))

C3_SortedStrictBeforePadding ==
    OpsFinal =>
        /\ \A i \in 1..(Len(memory_ops) - 1) :
               KeyLeq(sorting_key(memory_ops[i]), sorting_key(memory_ops[i + 1]))
        /\ DistinctKeys(AllInputOps) =>
               \A i \in 1..unpadded_length :
                   KeyLess(sorting_key(memory_ops[i]),
                           sorting_key(memory_ops[i + 1]))

\* Distinct input keys, timestamp dummies inserted, several padding rows.
C3_Witness ==
    /\ OpsFinal
    /\ DistinctKeys(AllInputOps)
    /\ Len(input_ops) = 2
    /\ GapDummyCount > 0
    /\ Len(memory_ops) - unpadded_length >= 2
    /\ \E i \in 1..unpadded_length :
           /\ memory_ops[i].address = memory_ops[i + 1].address
           /\ ~memory_ops[i + 1].filter

(***************************************************************************)
(* C4.  Every operation the gap filler and the padder insert is a Read     *)
(* with filter = false; so when every inactive input operation is a Read,  *)
(* every inactive row of the trace is a read:                              *)
(* (1 - filter) * (1 - is_read) = 0.                                       *)
(***************************************************************************)
C4_InsertedAreInactiveReads ==
    /\ OpsFinal =>
          LET added == OpsBag(memory_ops) (-) OpsBag(AllInputOps)
          IN  /\ BagCardinality(added) = Len(memory_ops) - Len(AllInputOps)
              /\ \A op \in BagToSet(added) : op.kind = Read /\ ~op.filter
    /\ (FlagsGenerated
        /\ \A i \in 1..Len(AllInputOps) :
               ~AllInputOps[i].filter => AllInputOps[i].kind = Read)
       => \A r \in 1..Len(trace_rows) :
              /\ trace_rows[r].filter = 0 => trace_rows[r].is_read = 1
              /\ FMul(FSub(1, trace_rows[r].filter),
                      FSub(1, trace_rows[r].is_read)) = 0

\* An inactive input read, inserted dummies, and the trace is built.
C4_Witness ==
    /\ pc = "done"
    /\ GapDummyCount > 0
    /\ \E i \in 1..Len(input_ops) : ~input_ops[i].filter
    /\ \A i \in 1..Len(input_ops) : ~input_ops[i].filter => input_ops[i].kind = Read
    /\ \E i \in 1..Len(input_ops) : input_ops[i].kind = Write

(***************************************************************************)
(* C5.  Gap filling and padding preserve read consistency: when the input  *)
(* operations (with the mem_before writes) in sorted order satisfy "same   *)
(* address and the second is a Read implies equal values", every two       *)
(* adjacent rows of the trace with the same address whose second row is a  *)
(* read have equal value limbs.                                            *)
(***************************************************************************)
InputReadConsistent ==
    LET sorted == sort_by_key(AllInputOps)
    IN  \A i \in 1..(Len(sorted) - 1) :
            (sorted[i].address = sorted[i + 1].address
             /\ sorted[i + 1].kind = Read)
            => sorted[i + 1].value = sorted[i].value

C5_ReadConsistencyPreserved ==
    (FlagsGenerated /\ InputReadConsistent) =>
        \A r \in 1..(Len(trace_rows) - 1) :
            (RowAddress(trace_rows[r]) = RowAddress(trace_rows[r + 1])
             /\ trace_rows[r + 1].is_read = 1)
            => trace_rows[r + 1].value_limbs = trace_rows[r].value_limbs

\* A timestamp dummy carrying a non-zero value, right before an active read.
C5_Witness ==
    /\ pc = "done"
    /\ InputReadConsistent
    /\ \E r \in 2..(Len(trace_rows) - 1) :
           /\ RowAddress(trace_rows[r]) = RowAddress(trace_rows[r - 1])
           /\ RowAddress(trace_rows[r]) = RowAddress(trace_rows[r + 1])
           /\ trace_rows[r].filter = 0
           /\ IsNonZeroValue(trace_rows[r])
           /\ trace_rows[r + 1].filter = 1
           /\ trace_rows[r + 1].is_read = 1

(***************************************************************************)
(* C6.  Zero-initialization: on a frame whose transition constraints all   *)
(* vanish, with exactly one first-change flag set and the next row a read, *)
(* every value limb of the next row is 0 unless the next row's segment is  *)
(* Code, TrieData, AccountsLinkedList or StorageLinkedList; and when it is *)
(* one of those four and the three auxiliary columns are validated, the    *)
(* zero-initialization constraints vanish whatever the next row's value.   *)
(***************************************************************************)
C6_ZeroInitialization ==
    PackedEvaluated =>
        /\ (/\ TransitionsVanish
            /\ nv.is_read = 1
            /\ ExactlyOneFirstChange
            /\ ~NextSegmentPreinitialized)
               => nv.value_limbs = ZeroLimbs
        /\ (/\ NextSegmentPreinitialized
            /\ \A k \in AuxValidationPositions : packed[k].value = 0)
               => \A i \in 1..VALUE_LIMBS :
                      packed[ZeroInitPosition(i)].value = 0

\* A first read in ContextMetadata passes with all-zero limbs.
C6_Witness ==
    /\ PackedEvaluated
    /\ TransitionsVanish
    /\ nv.is_read = 1
    /\ ExactlyOneFirstChange
    /\ nv.addr_segment = SEGMENT_CONTEXT_METADATA
    /\ lv.initialize_aux # 0

(***************************************************************************)
(* C7.  Re-running the gap filler and the padder on a finished list        *)
(* inserts no further gap-filling dummy and at most one further padding    *)
(* row.  Both are run on the list as pad_memory_ops and the sort after it  *)
(* leave it.                                                               *)
(* As stated (C7_AtMostOneMoreRow) this fails: the padder pads to the next *)
(* power of two strictly above the length, which is twice the length.      *)
(* What holds (C7_RefillNothingRepadDoubles): fill_gaps returns the list   *)
(* as it is and pad_memory_ops then doubles its length.                    *)
(***************************************************************************)
Refilled == fill_gaps(sort_by_key(memory_ops))
Repadded == pad_memory_ops(sort_by_key(Refilled))

C7_AtMostOneMoreRow ==
    JustPadded =>
        /\ Len(Refilled) = Len(memory_ops)
        /\ Len(Repadded) <= Len(memory_ops) + 1

C7_RefillNothingRepadDoubles ==
    JustPadded =>
        /\ Refilled = memory_ops
        /\ Len(Repadded) = 2 * Len(memory_ops)
        /\ SubSeq(Repadded, 1, Len(memory_ops)) = memory_ops

\* A finished list of 8 rows, 3 of them gap-filling dummies.
C7_Witness ==
    /\ JustPadded
    /\ Len(memory_ops) = 8
    /\ GapDummyCount = 3
    /\ Len(Repadded) = 16

(***************************************************************************)
(* C8.  Cross-mode equivalence: on the same frame eval_packed_generic and  *)
(* eval_ext_circuit yield the same number of constraints, the k-th of the  *)
(* same kind in both, and the k-th value of the one is zero exactly when   *)
(* the k-th value of the other is.                                         *)
(***************************************************************************)
C8_CrossModeEquivalence ==
    BothEvaluated =>
        /\ Len(packed) = Len(circuit)
        /\ \A k \in 1..Len(packed) :
               /\ packed[k].kind = circuit[k].kind
               /\ (packed[k].value = 0) <=> (circuit[k].value = 0)

\* A frame on which both modes reject the filter and accept the range check.
C8_Witness ==
    /\ BothEvaluated
    /\ packed[1].value # 0
    /\ circuit[1].value # 0
    /\ packed[13].value = 0
    /\ \E k \in 1..Len(packed) :
           packed[k].kind = "constraint_first_row" /\ circuit[k].value = 0

(***************************************************************************)
(* C9.  Scenario A: a write of 5 to (0, 6, 100) at timestamp 1 and a read  *)
(* of it at timestamp 2; gap filling adds no dummy row and the read row's  *)
(* value is 5.                                                             *)
(* As stated (C9_NoDummyRows) this fails: the first virtual offset is not  *)
(* 0.  What holds (C9_ScenarioA): fill_gaps puts the (0, 0, 0) dummy in    *)
(* front and, with max_rc = 3, 33 dummy reads at (0, 6, 1), (0, 6, 4), ...,*)
(* (0, 6, 97), none at (0, 6, 100); the trace has 64 rows and the read row *)
(* follows the write row with the limbs of 5.                              *)
(***************************************************************************)
InScenarioA == input_ops = ScenarioA /\ mem_before_values = <<>>

C9_NoDummyRows ==
    (InScenarioA /\ (GapsFilled \/ OpsFinal)) =>
        /\ GapDummyCount = 0
        /\ FlagsGenerated =>
               \E r \in 1..Len(trace_rows) :
                   /\ trace_rows[r].is_read = 1
                   /\ trace_rows[r].filter = 1
                   /\ trace_rows[r].value_limbs = into_row(ScenarioA[1]).value_limbs

C9_ScenarioA ==
    /\ (InScenarioA /\ GapsFilled) =>
          /\ GapDummyCount = 34
          /\ memory_ops[1] = MemoryOp(FALSE, 1, MemoryAddress(0, 0, 0), Read, 0)
          /\ memory_ops[2] = ScenarioA[1]
          /\ memory_ops[3] = ScenarioA[2]
          /\ \A i \in 4..36 :
                 memory_ops[i] = MemoryOp(FALSE, 2,
                     MemoryAddress(0, SEGMENT_CONTEXT_METADATA, 100 - 3 * (i - 3)),
                     Read, 0)
    /\ (InScenarioA /\ pc = "done") =>
          /\ Len(trace_rows) = 64
          /\ trace_rows[35].is_read = 0
          /\ trace_rows[36].is_read = 1
          /\ trace_rows[36].filter = 1
          /\ trace_rows[36].timestamp = 2
          /\ RowAddress(trace_rows[36]) = <<0, SEGMENT_CONTEXT_METADATA, 100>>
          /\ trace_rows[36].value_limbs = trace_rows[35].value_limbs
          /\ trace_rows[36].value_limbs =
                 [j \in 1..VALUE_LIMBS |->
                     IF j = 1 THEN 5 % Pow2(LimbBits)
                     ELSE IF j = 2 THEN (5 \div Pow2(LimbBits)) % Pow2(LimbBits)
                     ELSE 0]

C9_Witness == InScenarioA /\ pc = "done" /\ unpadded_length = 36

(***************************************************************************)
(* C10.  Scenario B: a single write to (0, 6, 100) at timestamp 1000; gap  *)
(* filling works with max_rc = 3, inserts a dummy read at (0, 6, 0) right  *)
(* before the write and a chain of same-address dummy reads whose          *)
(* timestamps advance by 3 up to 1000.                                     *)
(* As stated (C10_ChainToTimestamp) this fails.  What holds                *)
(* (C10_ScenarioB): max_rc = 1; the dummy in front is the read at          *)
(* (0, 0, 0), timestamp 1; 99 dummy reads at (0, 6, 99), ..., (0, 6, 1),   *)
(* all at timestamp 2, bound the virtual offset; the write is the only     *)
(* operation at (0, 6, 100), so no timestamp dummy is inserted.            *)
(***************************************************************************)
InScenarioB == input_ops = ScenarioB /\ mem_before_values = <<>>

ScenarioBMaxRc ==
    FillGapsMaxRc(WithFirstDummy(sort_by_key(AllInputOps)))

C10_ChainToTimestamp ==
    (InScenarioB /\ GapsFilled) =>
        /\ ScenarioBMaxRc = 3
        /\ \E i \in 1..Len(memory_ops) :
               /\ ~memory_ops[i].filter
               /\ memory_ops[i].address = MemoryAddress(0, SEGMENT_CONTEXT_METADATA, 0)
        /\ \E i \in 1..Len(memory_ops) :
               /\ ~memory_ops[i].filter
               /\ memory_ops[i].address = ScenarioB[1].address

C10_ScenarioB ==
    (InScenarioB /\ GapsFilled) =>
        /\ ScenarioBMaxRc = 1
        /\ Len(memory_ops) = 101
        /\ memory_ops[1] = MemoryOp(FALSE, 1, MemoryAddress(0, 0, 0), Read, 0)
        /\ memory_ops[2] = ScenarioB[1]
        /\ \A i \in 3..101 :
               memory_ops[i] = MemoryOp(FALSE, 2,
                   MemoryAddress(0, SEGMENT_CONTEXT_METADATA, 100 - (i - 2)),
                   Read, 0)

C10_Witness == InScenarioB /\ GapsFilled /\ GapDummyCount = 100

(***************************************************************************)
(* C11.  In the generated trace maybe_in_mem_after of a row is 1 exactly   *)
(* when the row is active, its address differs from the next row's and its *)
(* context is not stale (0 otherwise); mem_after_filter is 1 only where    *)
(* maybe_in_mem_after is 1; so a row of a stale context has                *)
(* mem_after_filter = 0 whatever its value, and no entry of the extracted  *)
(* final memory state is in a stale context.                               *)
(***************************************************************************)
C11_StaleExcluded ==
    TraceDone =>
        /\ \A i \in 1..Len(trace_rows) :
              /\ trace_rows[i].maybe_in_mem_after =
                     (IF /\ trace_rows[i].filter = 1
                         /\ RowAddress(trace_rows[i]) # RowAddress(NextRow(i))
                         /\ trace_rows[i].addr_context \notin StaleContextSet
                      THEN 1 ELSE 0)
              /\ trace_rows[i].mem_after_filter \in {0, 1}
              /\ trace_rows[i].mem_after_filter = 1
                     => trace_rows[i].maybe_in_mem_after = 1
              /\ trace_rows[i].addr_context \in StaleContextSet
                     => trace_rows[i].mem_after_filter = 0
        /\ \A k \in 1..Len(mem_after_values) :
              mem_after_values[k][2] \notin StaleContextSet

\* Context 0 is stale and holds a non-zero value that is left out, while a
\* row of the other context is kept.
C11_Witness ==
    /\ TraceDone
    /\ stale_contexts = <<0>>
    /\ \E i \in 1..Len(trace_rows) :
          /\ trace_rows[i].filter = 1
          /\ trace_rows[i].addr_context = 0
          /\ trace_rows[i].value_limbs # ZeroLimbs
          /\ RowAddress(trace_rows[i]) # RowAddress(NextRow(i))
    /\ Len(mem_after_values) = 1

(***************************************************************************)
(* C12.  Among the rows with maybe_in_mem_after = 1, mem_after_filter is 0 *)
(* exactly for the rows whose value is zero and whose segment is a         *)
(* preinitialized segment, and 1 for every other candidate row.            *)
(* As stated (C12_ZeroDroppedInPreinitialized) this fails: the generator   *)
(* keeps every candidate of a preinitialized segment.  What holds          *)
(* (C12_ZeroDroppedOutsidePreinitialized): mem_after_filter is 0 exactly   *)
(* for the candidate rows whose value is zero and whose segment is NOT a   *)
(* preinitialized segment, and 1 for every other candidate row.            *)
(***************************************************************************)
CandidateRows == {i \in 1..Len(trace_rows) : trace_rows[i].maybe_in_mem_after = 1}

RowSegmentPreinitialized(i) ==
    trace_rows[i].addr_segment \in PREINITIALIZED_SEGMENTS_INDICES

FlagsAndRcAsSpecified(given, rows) ==
    /\ Len(rows) = Len(given)
    /\ \A i \in 1..Len(rows) :
          LET cur == given[i]
              nxt == given[NextIndex(i, Len(given))]
              first ==
                  IF cur.addr_context # nxt.addr_context THEN "context"
                  ELSE IF cur.addr_segment # nxt.addr_segment THEN "segment"
                  ELSE IF cur.addr_virtual # nxt.addr_virtual THEN "virtual"
                  ELSE "none"
          IN  /\ rows[i].context_first_change
                     = (IF first = "context" THEN 1 ELSE 0)
              /\ rows[i].segment_first_change
                     = (IF first = "segment" THEN 1 ELSE 0)
              /\ rows[i].virtual_first_change
                     = (IF first = "virtual" THEN 1 ELSE 0)
              /\ rows[i].context_first_change + rows[i].segment_first_change
                     + rows[i].virtual_first_change <= 1
              /\ rows[i].range_check =
                     (IF i = Len(rows) THEN 0
                      ELSE IF first = "context"
                      THEN nxt.addr_context - cur.addr_context - 1
                      ELSE IF first = "segment"
                      THEN nxt.addr_segment - cur.addr_segment - 1
                      ELSE IF first = "virtual"
                      THEN nxt.addr_virtual - cur.addr_virtual - 1
                      ELSE nxt.timestamp - cur.timestamp)

C13_FlagsAndRangeCheck ==
    /\ pc = "flags" => FlagsAndRcAsSpecified(trace_rows, FlagsAndRcRows(trace_rows))
    /\ pc = "stale" => FlagsAndRcAsSpecified(trace_rows, trace_rows)

\* A trace with a context change, a segment change, a virtual-offset change
\* with a gap, and an unchanged address with a timestamp step.
C13_Witness ==
    /\ pc = "stale"
    /\ \E i, j, k \in 1..(Len(trace_rows) - 1) :
          /\ trace_rows[i].context_first_change = 1
          /\ trace_rows[j].segment_first_change = 1
          /\ trace_rows[k].virtual_first_change = 1
          /\ trace_rows[k].range_check > 0
    /\ \E l \in 1..(Len(trace_rows) - 1) :
          /\ RowAddress(trace_rows[l]) = RowAddress(trace_rows[l + 1])
          /\ trace_rows[l].range_check = 0

(***************************************************************************)
(* C14.  For every row the generated initialize_aux is 1 exactly when the  *)
(* address changes into the next row, the next row is a read and the next  *)
(* row's segment is not preinitialized, and 0 otherwise.                   *)
(* As stated (C14_InitializeAuxIsOne) this fails: the column is a product, *)
(* not a flag.  What holds (C14_InitializeAuxIsProduct): under those three *)
(* conditions initialize_aux is the product over the four preinitialized   *)
(* segments of (next segment - that segment), which is neither 0 nor 1,    *)
(* and it is 0 otherwise.                                                  *)
(***************************************************************************)
\* The address changes into the next row, which is a read outside the
\* preinitialized segments.
FirstReadFollows(i) ==
    /\ RowAddress(trace_rows[i]) # RowAddress(NextRow(i))
    /\ NextRow(i).is_read = 1
    /\ NextRow(i).addr_segment \notin PREINITIALIZED_SEGMENTS_INDICES

SegmentProduct(segment) ==
    ((segment - SEGMENT_CODE) * (segment - SEGMENT_TRIE_DATA)
        * (segment - SEGMENT_ACCOUNTS_LINKED_LIST)
        * (segment - SEGMENT_STORAGE_LINKED_LIST)) % FieldOrder

C14_InitializeAuxIsOne ==
    pc = "stale" =>
        \A i \in 1..Len(trace_rows) :
            trace_rows[i].initialize_aux = (IF FirstReadFollows(i) THEN 1 ELSE 0)

C14_InitializeAuxIsProduct ==
    pc = "stale" =>
        \A i \in 1..Len(trace_rows) :
            /\ trace_rows[i].initialize_aux =
                   (IF FirstReadFollows(i)
                    THEN SegmentProduct(NextRow(i).addr_segment) ELSE 0)
            /\ FirstReadFollows(i) => trace_rows[i].initialize_aux \notin {0, 1}

\* A first read in ContextMetadata, and a write at a new address there.
C14_Witness ==
    /\ pc = "stale"
    /\ \E i \in 1..Len(trace_rows) :
          /\ FirstReadFollows(i)
          /\ NextRow(i).addr_segment = SEGMENT_CONTEXT_METADATA
          /\ trace_rows[i].initialize_aux = SegmentProduct(SEGMENT_CONTEXT_METADATA)
    /\ \E i \in 1..Len(trace_rows) :
          /\ RowAddress(trace_rows[i]) # RowAddress(NextRow(i))
          /\ NextRow(i).is_read = 0
          /\ NextRow(i).addr_segment = SEGMENT_CONTEXT_METADATA

(***************************************************************************)
(* C15.  The last row's first-change flags, computed against the first     *)
(* row, end up as 0 in the generated trace.                                *)
(* As stated (C15_LastRowFlagsZero) this fails: nothing overwrites them.   *)
(* What holds (C15_LastRowFlagsKept): the last row is a padding row whose  *)
(* address differs from the first row's, so in the generated trace exactly *)
(* one of its three flags is 1, the one of the first address component     *)
(* that differs from the first row; only its range_check is 0.             *)
(***************************************************************************)
LastRow == trace_rows[Len(trace_rows)]

LastRowFlags ==
    <<LastRow.context_first_change, LastRow.segment_first_change,
      LastRow.virtual_first_change>>

C15_LastRowFlagsZero == TraceDone => LastRowFlags = <<0, 0, 0>>

C15_LastRowFlagsKept ==
    TraceDone =>
        /\ LastRow.filter = 0
        /\ LastRow.range_check = 0
        /\ LastRowFlags =
               (IF LastRow.addr_context # trace_rows[1].addr_context
                THEN <<1, 0, 0>>
                ELSE IF LastRow.addr_segment # trace_rows[1].addr_segment
                THEN <<0, 1, 0>>
                ELSE <<0, 0, 1>>)
        /\ RowAddress(LastRow) # RowAddress(trace_rows[1])

\* A trace whose last row is in another context than its first row.
C15_Witness ==
    /\ TraceDone
    /\ LastRow.addr_context # trace_rows[1].addr_context
    /\ LastRowFlags = <<1, 0, 0>>
    /\ Len(trace_rows) >= 4

(***************************************************************************)
(* C16.  Booleanity: on a row where all the evaluator's constraints vanish *)
(* filter, the three first-change flags, the address-unchanged indicator,  *)
(* mem_after_filter and is_read are each 0 or 1.                           *)
(* As stated (C16_Booleanity) this fails for is_read, which the evaluator  *)
(* leaves to the cross-table lookup.  What holds                           *)
(* (C16_BooleanityExceptIsRead): where the row-local constraints vanish    *)
(* the six other values are 0 or 1, and is_read is 1 on a row whose filter *)
(* is 0; on an active row is_read is not constrained by the evaluator.     *)
(***************************************************************************)
AllConstraintsVanish == \A k \in 1..Len(packed) : packed[k].value = 0

RowLocalConstraintsVanish ==
    \A k \in 1..Len(packed) :
        packed[k].kind = "constraint" => packed[k].value = 0

OtherColumnsBoolean ==
    /\ lv.filter \in {0, 1}
    /\ lv.context_first_change \in {0, 1}
    /\ lv.segment_first_change \in {0, 1}
    /\ lv.virtual_first_change \in {0, 1}
    /\ address_unchanged(lv) \in {0, 1}
    /\ lv.mem_after_filter \in {0, 1}

C16_Booleanity ==
    (PackedEvaluated /\ AllConstraintsVanish) =>
        (OtherColumnsBoolean /\ lv.is_read \in {0, 1})

C16_BooleanityExceptIsRead ==
    (PackedEvaluated /\ RowLocalConstraintsVanish) =>
        /\ OtherColumnsBoolean
        /\ lv.filter = 0 => lv.is_read = 1

\* An active row with is_read = 2 on which every constraint vanishes.
C16_Witness ==
    /\ PackedEvaluated
    /\ AllConstraintsVanish
    /\ lv.filter = 1
    /\ lv.is_read = 2
    /\ OtherColumnsBoolean

(***************************************************************************)
(* C17.  Internal invariant violations are fatal: generate_trace aborts,   *)
(* returning no trace, final-state list or count, when the combined list   *)
(* (operations plus mem_before) is empty and when some row's computed      *)
(* range_check is not smaller than the trace length; an output never holds *)
(* a range_check that is not smaller than the trace length.                *)
(***************************************************************************)
\* generate_trace has got past generate_first_change_flags_and_rc.
PastFlags == pc \in {"stale", "col_major", "done"}

Panicked == pc = "panicked"

C17_ViolationsAreFatal ==
    /\ (AllInputOps = <<>> /\ pc \notin {"start", "fill_gaps"}) =>
           (Panicked /\ panic = "index out of bounds")
    /\ Panicked => (panic # "none" /\ mem_after_values = <<>>)
    /\ (Panicked /\ panic = "Range check is too large") =>
           \E i \in 1..Len(trace_rows) :
               RangeCheckValue(trace_rows[i], NextRow(i), i = Len(trace_rows))
                   >= Len(trace_rows)
    /\ PastFlags =>
           /\ panic = "none"
           /\ AllInputOps # <<>>
           /\ \A i \in 1..Len(trace_rows) :
                  trace_rows[i].range_check < Len(trace_rows)

\* The assertion has fired on a delta no smaller than the trace length.
C17_Witness ==
    /\ Panicked
    /\ panic = "Range check is too large"
    /\ AllInputOps # <<>>
    /\ mem_after_values = <<>>
    /\ \E i \in 1..(Len(trace_rows) - 1) :
           RangeCheckValue(trace_rows[i], trace_rows[i + 1], FALSE)
               >= Len(trace_rows)

(***************************************************************************)
(* C18.  The stale-context list is checked to be duplicate-free: a list    *)
(* that holds the same context twice aborts trace generation instead of    *)
(* producing a trace.                                                      *)
(* As stated (C18_DuplicateAborts) this fails: the check is a debug        *)
(* assertion, absent from a build without debug assertions, and there a    *)
(* list with a duplicate produces a trace.  What holds                     *)
(* (C18_DuplicateCheckedInDebugOnly): generation aborts with "Stale        *)
(* contexts are not unique." only on a list with a duplicate, and when it  *)
(* goes on, with or without duplicates, row ctx is marked for exactly the  *)
(* contexts ctx that occur in the list.                                    *)
(***************************************************************************)
C18_DuplicateAborts ==
    ~StaleContextsUnique => pc \notin {"col_major", "done"}

C18_DuplicateCheckedInDebugOnly ==
    /\ panic = "Stale contexts are not unique." =>
           (Panicked /\ ~StaleContextsUnique)
    /\ pc \in {"col_major", "done"} =>
           \A r \in 1..Len(trace_rows) :
               /\ trace_rows[r].stale_contexts =
                      (IF (r - 1) \in StaleContextSet THEN r ELSE 0)
               /\ trace_rows[r].is_pruned =
                      (IF (r - 1) \in StaleContextSet THEN 1 ELSE 0)

\* A trace produced from a list that names context 0 twice.
C18_Witness ==
    /\ TraceDone
    /\ ~StaleContextsUnique
    /\ trace_rows[1].stale_contexts = 1
    /\ \E r \in 1..Len(trace_rows) :
           trace_rows[r].is_stale = 1 /\ trace_rows[r].filter = 1

\* The debug assertion has fired.
StaleAssertionFired ==
    Panicked /\ panic = "Stale contexts are not unique."

\* The empty combined list has panicked.
EmptyListPanicked ==
    Panicked /\ AllInputOps = <<>>

(***************************************************************************)
(* C19.  The count generate_trace returns is the number of non-padding     *)
(* rows: the input operations plus the mem_before entries plus the dummy   *)
(* reads of the gap filler; the trace length N is the smallest power of    *)
(* two strictly greater than it (N/2 <= count < N); and exactly the        *)
(* N - count rows the padder appended are left out of it.                  *)
(***************************************************************************)
\* The operations the count covers.
CountedOps == SubSeq(memory_ops, 1, unpadded_length)

\* How many times x occurs in ops.
Occurrences(ops, x) == Cardinality({i \in 1..Len(ops) : ops[i] = x})

C19_CountOfNonPaddingRows ==
    TraceDone =>
        LET count == unpadded_length
            N == Len(trace_rows)
            last_op == memory_ops[count]
        IN  /\ Len(memory_ops) = N
            /\ count >= Len(input_ops) + Len(mem_before_values)
            /\ count = Len(fill_gaps(sort_by_key(AllInputOps)))
            /\ \A i \in 1..count :
                   LET x == memory_ops[i]
                   IN  \/ Occurrences(CountedOps, x) = Occurrences(AllInputOps, x)
                       \/ /\ Occurrences(CountedOps, x) > Occurrences(AllInputOps, x)
                          /\ ~x.filter
                          /\ x.kind = Read
            /\ \A i \in 1..Len(AllInputOps) :
                   Occurrences(CountedOps, AllInputOps[i])
                       >= Occurrences(AllInputOps, AllInputOps[i])
            /\ PowerOfTwo(N)
            /\ N \div 2 <= count
            /\ count < N
            /\ \A i \in (count + 1)..N :
                   /\ memory_ops[i] =
                          MemoryOp(FALSE, last_op.timestamp + 1,
                                   MemoryAddress(last_op.address.context,
                                                 last_op.address.segment,
                                                 last_op.address.virt + 1),
                                   Read, 0)
                   /\ trace_rows[i].filter = 0

\* An operation, a mem_before entry and a gap dummy, padded with two rows
\* or more.
C19_Witness ==
    /\ TraceDone
    /\ Len(input_ops) >= 1
    /\ Len(mem_before_values) = 1
    /\ unpadded_length > Len(input_ops) + Len(mem_before_values)
    /\ Len(trace_rows) - unpadded_length >= 2

(***************************************************************************)
(* C20.  Completeness of trace generation: when every input operation is   *)
(* active with timestamp >= 1, the mem_before addresses are distinct, the  *)
(* log in sort order is read-consistent and zero-initialized (a first      *)
(* access that is a read has value 0 outside the preinitialized segments)  *)
(* and the deltas are small enough for generate_trace to return, the trace *)
(* satisfies every constraint of eval_packed_generic: the first-row        *)
(* constraints on row 0, the transition constraints on every pair          *)
(* (i, i+1) with i < N-1, the row-local constraints on every row.          *)
(***************************************************************************)
InputOpsActive ==
    \A i \in 1..Len(input_ops) :
        input_ops[i].filter /\ input_ops[i].timestamp >= 1

MemBeforeDistinct ==
    \A i, j \in 1..Len(mem_before_values) :
        mem_before_values[i][1] = mem_before_values[j][1] => i = j

InputZeroInitialized ==
    LET sorted == sort_by_key(AllInputOps)
    IN  \A i \in 1..Len(sorted) :
            (/\ i = 1 \/ sorted[i - 1].address # sorted[i].address
             /\ sorted[i].kind = Read
             /\ sorted[i].address.segment \notin PREINITIALIZED_SEGMENTS_INDICES)
            => sorted[i].value = 0

\* The constraints of the frame (row i, next row) that bind on row i.
BindingConstraintsVanish(i) ==
    LET yielded == eval_packed_generic(trace_rows[i], NextRow(i))
    IN  \A k \in 1..Len(yielded) :
            (\/ yielded[k].kind = "constraint"
             \/ yielded[k].kind = "constraint_transition" /\ i < Len(trace_rows)
             \/ yielded[k].kind = "constraint_first_row" /\ i = 1)
            => yielded[k].value = 0

C20_Completeness ==
    (/\ TraceDone
     /\ InputOpsActive
     /\ MemBeforeDistinct
     /\ InputReadConsistent
     /\ InputZeroInitialized)
    => \A i \in 1..Len(trace_rows) : BindingConstraintsVanish(i)

\* A write of MaxValue read back later, with timestamp dummies in between.
C20_Witness ==
    /\ TraceDone
    /\ InputOpsActive
    /\ InputReadConsistent
    /\ InputZeroInitialized
    /\ Len(input_ops) = 2
    /\ input_ops[1].kind = Write
    /\ input_ops[1].value = MaxValue
    /\ input_ops[2].kind = Read
    /\ input_ops[2].address = input_ops[1].address
    /\ input_ops[2].timestamp > input_ops[1].timestamp
    /\ unpadded_length > 2

\* A first access that is a read of zero, and a mem_before entry.
ZeroReadFirst ==
    /\ TraceDone
    /\ InputOpsActive
    /\ InputReadConsistent
    /\ InputZeroInitialized
    /\ Len(mem_before_values) = 1
    /\ \E i \in 1..Len(input_ops) :
           input_ops[i].kind = Read /\ input_ops[i].value = 0

(***************************************************************************)
(* C21.  Ordering soundness: on two adjacent rows of integers below the    *)
(* field modulus where all row-local and transition constraints vanish and *)
(* the current row's range_check is in 0..N-1, at most one first-change    *)
(* flag is set, the next row's key (context, segment, virtual, timestamp)  *)
(* is lexicographically >= the current row's, the address is strictly      *)
(* greater exactly when a flag is set and identical exactly when none is.  *)
(* As stated (C21_OrderingSoundness) this fails: the deltas are taken in   *)
(* the field, so a current row whose component is within N of the modulus  *)
(* may be followed by a smaller one (modulus - 1, then 0).  What holds     *)
(* (C21_OrderingSoundnessNoWrap): the same, for rows whose current address *)
(* components and timestamp are all below the modulus minus N.             *)
(***************************************************************************)
LocalAndTransitionVanish ==
    \A k \in 1..Len(packed) :
        packed[k].kind \in {"constraint", "constraint_transition"}
            => packed[k].value = 0

FlagsSet ==
    lv.context_first_change + lv.segment_first_change + lv.virtual_first_change

TupleLess(a, b) ==
    \E k \in 1..Len(a) :
        /\ a[k] < b[k]
        /\ \A j \in 1..(k - 1) : a[j] = b[j]

FrameKey(row) ==
    <<row.addr_context, row.addr_segment, row.addr_virtual, row.timestamp>>

OrderedAsFlagged ==
    /\ FlagsSet \in {0, 1}
    /\ FrameKey(lv) = FrameKey(nv) \/ TupleLess(FrameKey(lv), FrameKey(nv))
    /\ FlagsSet = 1 <=> TupleLess(RowAddress(lv), RowAddress(nv))
    /\ FlagsSet = 0 <=> RowAddress(lv) = RowAddress(nv)

\* No component of the current row is within the height of the modulus.
FarFromModulus ==
    \A k \in 1..4 : FrameKey(lv)[k] < FieldOrder - FrameHeight

C21_OrderingSoundness ==
    (/\ PackedEvaluated
     /\ LocalAndTransitionVanish
     /\ lv.range_check < FrameHeight)
    => OrderedAsFlagged

C21_OrderingSoundnessNoWrap ==
    (/\ PackedEvaluated
     /\ LocalAndTransitionVanish
     /\ lv.range_check < FrameHeight
     /\ FarFromModulus)
    => OrderedAsFlagged

\* A frame accepted with the segment flag set and the segment one higher.
C21_Witness ==
    /\ PackedEvaluated
    /\ LocalAndTransitionVanish
    /\ lv.range_check < FrameHeight
    /\ FarFromModulus
    /\ lv.segment_first_change = 1
    /\ nv.addr_segment = lv.addr_segment + 1
    /\ nv.addr_virtual < lv.addr_virtual
    /\ OrderedAsFlagged

\* A frame accepted with the virtual offset going from the modulus - 1 to 0.
WrappedAround ==
    /\ PackedEvaluated
    /\ LocalAndTransitionVanish
    /\ lv.range_check = 0
    /\ lv.virtual_first_change = 1
    /\ lv.addr_virtual = FieldOrder - 1
    /\ nv.addr_virtual = 0

(***************************************************************************)
(* C22.  fill_gaps terminates in one pass over the adjacent pairs of its   *)
(* sorted input and reaches the fixed point: with max_rc =                 *)
(* next_power_of_two(length after the optional (0, 0, 0) prepend) - 1, in  *)
(* the re-sorted result the first row has virtual offset 0, the first row  *)
(* of every (context, segment) group has virtual offset <= max_rc, every   *)
(* adjacent pair in one (context, segment) has virtual gap - 1 <= max_rc,  *)
(* every adjacent pair at one address has timestamp gap <= max_rc; max_rc  *)
(* is below the final trace length, so the range-check assertion fires     *)
(* only for a context or segment delta.                                    *)
(***************************************************************************)
\* The length of the sorted input once the (0, 0, 0) dummy is in.
LengthAfterPrepend ==
    Len(AllInputOps)
        + (IF sort_by_key(AllInputOps)[1].address.virt # 0 THEN 1 ELSE 0)

SameGroup(a, b) ==
    /\ a.address.context = b.address.context
    /\ a.address.segment = b.address.segment

\* Every gap of a sorted list that fill_gaps looks after is within max_rc.
GapsWithin(sorted, max_rc) ==
    /\ sorted[1].address.virt = 0
    /\ \A i \in 1..(Len(sorted) - 1) :
           LET a == sorted[i]
               b == sorted[i + 1]
           IN  /\ ~SameGroup(a, b) => b.address.virt <= max_rc
               /\ (SameGroup(a, b) /\ a.address.virt # b.address.virt)
                      => b.address.virt - a.address.virt - 1 <= max_rc
               /\ a.address = b.address => b.timestamp - a.timestamp <= max_rc

C22_GapsFilledInOnePass ==
    /\ GapsFilled =>
           LET sorted == sort_by_key(memory_ops)
               max_rc == next_power_of_two(LengthAfterPrepend) - 1
           IN  /\ IsSorted(sorted)
               /\ GapsWithin(sorted, max_rc)
               /\ Len(sorted) >= 2 => max_rc >= 1
               /\ \A i \in 1..(Len(sorted) - 1) :
                      GapDummies(sorted[i], sorted[i + 1], max_rc) = <<>>
               /\ max_rc < next_power_of_two(Len(sorted) + 1)
    /\ OpsFinal =>
           LET max_rc == next_power_of_two(LengthAfterPrepend) - 1
           IN  /\ max_rc < Len(memory_ops)
               /\ GapsWithin(memory_ops, max_rc)
    /\ panic = "Range check is too large" =>
           \E i \in 1..(Len(memory_ops) - 1) :
               LET a == memory_ops[i].address
                   b == memory_ops[i + 1].address
               IN  \/ b.context - a.context - 1 >= Len(memory_ops)
                   \/ /\ a.context = b.context
                      /\ b.segment - a.segment - 1 >= Len(memory_ops)

\* Gaps of all three kinds were filled: the (0, 0, 0) dummy, a first offset
\* above max_rc, and an offset gap inside a group.
C22_Witness ==
    /\ GapsFilled
    /\ Len(memory_ops) > LengthAfterPrepend
    /\ LengthAfterPrepend > Len(AllInputOps)
    /\ LET sorted == sort_by_key(AllInputOps)
           max_rc == next_power_of_two(LengthAfterPrepend) - 1
       IN  /\ Len(sorted) = 2
           /\ sorted[1].address.virt > max_rc
           /\ ~SameGroup(sorted[1], sorted[2])
           /\ sorted[2].address.virt > max_rc

\* A timestamp gap above max_rc was filled.
TimestampGapFilled ==
    /\ GapsFilled
    /\ \E i \in 1..Len(memory_ops) :
           /\ ~memory_ops[i].filter
           /\ memory_ops[i].value # 0

(***************************************************************************)
(* C23.  Lookup frequency consistency: in the finished trace, for every v  *)
(* in 0..N-1, frequencies[v] is the number of rows with range_check v plus *)
(* the number of rows with context_first_change + segment_first_change = 1 *)
(* whose cyclic next row has virtual offset v, and no looked-up value is   *)
(* outside 0..N-1; for every slot j, stale_context_frequencies[j] is the   *)
(* number of rows with is_stale = 1 whose context + 1 is stale_contexts[j].*)
(* Both declared lookups balance.                                          *)
(***************************************************************************)
\* How many of the looked-up entries carry the value.
LookedUpTimes(lookup, value) ==
    Cardinality({entry \in lookup : entry[3] = value})

C23_LookupsBalance ==
    TraceDone =>
        LET N == Len(trace_rows)
        IN  /\ \A r \in 1..N :
                   /\ trace_rows[r].counter = r - 1
                   /\ trace_rows[r].frequencies =
                          LookedUpTimes(RangeCheckLookup(trace_rows), r - 1)
                   /\ trace_rows[r].stale_context_frequencies =
                          Cardinality({i \in 1..N :
                              /\ trace_rows[i].is_stale = 1
                              /\ trace_rows[i].addr_context + 1
                                     = trace_rows[r].stale_contexts})
                   /\ trace_rows[r].stale_contexts # 0 =>
                          trace_rows[r].stale_context_frequencies =
                              LookedUpTimes(StaleContextLookup(trace_rows),
                                            trace_rows[r].stale_contexts)
            /\ \A entry \in RangeCheckLookup(trace_rows) : entry[3] < N
            /\ \A entry \in StaleContextLookup(trace_rows) :
                   \E r \in 1..N : trace_rows[r].stale_contexts = entry[3]

\* The last row changes context against the first, and two rows or more
\* are stale.
C23_Witness ==
    /\ TraceDone
    /\ LastRow.context_first_change = 1
    /\ \E r \in 1..Len(trace_rows) : trace_rows[r].stale_context_frequencies >= 2
    /\ trace_rows[1].frequencies >= 2

\* Values other than 0 are looked up.
NonZeroLookedUp ==
    /\ TraceDone
    /\ \E r \in 3..Len(trace_rows) : trace_rows[r].frequencies >= 1
    /\ \E i \in 1..Len(trace_rows) :
           /\ trace_rows[i].segment_first_change = 1
           /\ NextRow(i).addr_virtual > 0

(***************************************************************************)
(* C24.  Multiset preservation: the active rows of the generated trace     *)
(* are, as a multiset of (address, value, timestamp, kind), exactly the    *)
(* active input operations plus one timestamp-0 Write per mem_before       *)
(* entry; gap filling, padding and sorting never drop, duplicate or alter  *)
(* an input operation, and every row they add is inactive with timestamp   *)
(* >= 1, so rows with timestamp 0 come only from mem_before or from input  *)
(* operations that had timestamp 0.                                        *)
(***************************************************************************)
\* What was performed: the input operations, and a write at timestamp 0
\* for every mem_before entry.
PerformedOps ==
    input_ops \o
    [i \in 1..Len(mem_before_values) |->
        [filter |-> TRUE, timestamp |-> 0,
         address |-> mem_before_values[i][1], kind |-> Write,
         value |-> mem_before_values[i][2]]]

OpContent(op) ==
    <<op.address.context, op.address.segment, op.address.virt,
      [j \in 1..VALUE_LIMBS |->
          (op.value \div Pow2((j - 1) * LimbBits)) % Pow2(LimbBits)],
      op.timestamp, IF op.kind = Read THEN 1 ELSE 0>>

RowContent(row) ==
    <<row.addr_context, row.addr_segment, row.addr_virtual, row.value_limbs,
      row.timestamp, row.is_read>>

ActiveRowsWith(content) ==
    Cardinality({r \in 1..Len(trace_rows) :
        trace_rows[r].filter = 1 /\ RowContent(trace_rows[r]) = content})

ActiveOpsWith(content) ==
    Cardinality({i \in 1..Len(PerformedOps) :
        PerformedOps[i].filter /\ OpContent(PerformedOps[i]) = content})

C24_MultisetPreserved ==
    TraceDone =>
        /\ \A r \in 1..Len(trace_rows) :
               trace_rows[r].filter = 1 =>
                   ActiveRowsWith(RowContent(trace_rows[r]))
                       = ActiveOpsWith(RowContent(trace_rows[r]))
        /\ \A i \in 1..Len(PerformedOps) :
               PerformedOps[i].filter =>
                   ActiveRowsWith(OpContent(PerformedOps[i]))
                       = ActiveOpsWith(OpContent(PerformedOps[i]))
        /\ \A i \in 1..Len(memory_ops) :
               LET x == memory_ops[i]
               IN  \/ Occurrences(memory_ops, x) = Occurrences(PerformedOps, x)
                   \/ /\ Occurrences(memory_ops, x) > Occurrences(PerformedOps, x)
                      /\ ~x.filter
                      /\ x.timestamp >= 1
        /\ \A i \in 1..Len(PerformedOps) :
               Occurrences(memory_ops, PerformedOps[i])
                   >= Occurrences(PerformedOps, PerformedOps[i])
        /\ \A r \in 1..Len(trace_rows) :
               trace_rows[r] = [trace_rows[r] EXCEPT
                   !.filter = IF memory_ops[r].filter THEN 1 ELSE 0,
                   !.addr_context = OpContent(memory_ops[r])[1],
                   !.addr_segment = OpContent(memory_ops[r])[2],
                   !.addr_virtual = OpContent(memory_ops[r])[3],
                   !.value_limbs = OpContent(memory_ops[r])[4],
                   !.timestamp = OpContent(memory_ops[r])[5],
                   !.is_read = OpContent(memory_ops[r])[6]]

\* The same active operation twice, a mem_before entry and added rows.
C24_Witness ==
    /\ TraceDone
    /\ Len(input_ops) = 1
    /\ input_ops[1].filter
    /\ input_ops[1].kind = Write
    /\ input_ops[1].timestamp = MaxTimestamp
    /\ Len(mem_before_values) = 1
    /\ input_ops[1].address = mem_before_values[1][1]
    /\ unpadded_length > 2
    /\ \E r \in 1..Len(trace_rows) :
           trace_rows[r].filter = 1 /\ trace_rows[r].timestamp = 0

\* Two active operations that are the same operation.
SameOperationTwice ==
    /\ TraceDone
    /\ Len(input_ops) = 2
    /\ input_ops[1] = input_ops[2]
    /\ input_ops[1].filter

(***************************************************************************)
(* C25.  Determinism and order-independence: for two permutations of one   *)
(* operation list whose sort keys are pairwise distinct, or whose tied     *)
(* operations are identical, with the same mem_before and stale-context    *)
(* lists, generate_trace returns the same trace columns, final-memory-     *)
(* state list and non-padding count.  generate_trace reads its operation   *)
(* list only through the sort at the head of generate_trace_row_major, so  *)
(* the property is stated on that sorted list: it is the same for every    *)
(* permutation, and what generate_trace makes of it is what was returned.  *)
(***************************************************************************)
\* The lists that hold the operations of ops in another order.
PermutationsOf(ops) ==
    {[i \in 1..Len(ops) |-> ops[f[i]]] :
        f \in {g \in [1..Len(ops) -> 1..Len(ops)] :
                  \A i, j \in 1..Len(ops) : g[i] = g[j] => i = j}}

\* Operations of equal (context, segment, virtual, timestamp) are equal.
TiedOpsIdentical(ops) ==
    \A i, j \in 1..Len(ops) :
        (/\ ops[i].address = ops[j].address
         /\ ops[i].timestamp = ops[j].timestamp) => ops[i] = ops[j]

GenerateTraceReturned == <<trace_rows, mem_after_values, unpadded_length>>

\* The list generate_trace_row_major has after its first sort.
SortedWorkingList(ops, mem_before) ==
    sort_by_key(
        ops \o [i \in 1..Len(mem_before) |-> MemBeforeOp(mem_before[i])])

C25_OrderIndependent ==
    (TraceDone /\ TiedOpsIdentical(input_ops)) =>
        /\ generate_trace(input_ops, mem_before_values, stale_contexts)
               = GenerateTraceReturned
        /\ \A permuted \in PermutationsOf(input_ops) :
               SortedWorkingList(permuted, mem_before_values)
                   = SortedWorkingList(input_ops, mem_before_values)

\* The same with generate_trace run on every permutation.
OrderIndependentOutputs ==
    (TraceDone /\ TiedOpsIdentical(input_ops)) =>
        \A permuted \in PermutationsOf(input_ops) :
            generate_trace(permuted, mem_before_values, stale_contexts)
                = GenerateTraceReturned

\* Two operations in decreasing key order, with gap dummies in between.
C25_Witness ==
    /\ TraceDone
    /\ Len(input_ops) = 2
    /\ input_ops[1].address.context > input_ops[2].address.context
    /\ input_ops[1].address.virt < input_ops[2].address.virt
    /\ unpadded_length > 2
    /\ generate_trace(<<input_ops[2], input_ops[1]>>, mem_before_values,
                      stale_contexts) = GenerateTraceReturned

\* Without the condition on ties the order of the list shows in the trace.
TiesOrderIndependent ==
    TraceDone =>
        \A permuted \in PermutationsOf(input_ops) :
            generate_trace(permuted, mem_before_values, stale_contexts)
                = GenerateTraceReturned

(***************************************************************************)
(* C26.  The final-memory-state list holds at most one entry per address,  *)
(* in increasing address order, each with the value of the last row        *)
(* (highest timestamp) at that address in the trace; an address whose last *)
(* row is an active operation in a non-stale context is left out only when *)
(* mem_after_filter excludes it.                                           *)
(***************************************************************************)
EntryAddress(entry) == <<entry[2], entry[3], entry[4]>>

EntryValue(entry) == [j \in 1..VALUE_LIMBS |-> entry[4 + j]]

\* Row r is the last row of the trace at its address.
LastAtAddress(r) ==
    \A q \in (r + 1)..Len(trace_rows) :
        RowAddress(trace_rows[q]) # RowAddress(trace_rows[r])

\* Row r is an active operation in a context that is not stale.
ActiveNotStale(r) ==
    /\ trace_rows[r].filter = 1
    /\ trace_rows[r].addr_context \notin StaleContextSet

C26_FinalStateList ==
    TraceDone =>
        /\ \A k \in 1..Len(mem_after_values) :
               /\ Len(mem_after_values[k]) = 4 + VALUE_LIMBS
               /\ mem_after_values[k][1] = 1
               /\ \E r \in 1..Len(trace_rows) :
                      /\ RowAddress(trace_rows[r]) = EntryAddress(mem_after_values[k])
                      /\ LastAtAddress(r)
                      /\ ActiveNotStale(r)
                      /\ trace_rows[r].value_limbs = EntryValue(mem_after_values[k])
                      /\ \A q \in 1..Len(trace_rows) :
                             RowAddress(trace_rows[q]) = RowAddress(trace_rows[r])
                                 => trace_rows[q].timestamp <= trace_rows[r].timestamp
        /\ \A k \in 1..(Len(mem_after_values) - 1) :
               TupleLess(EntryAddress(mem_after_values[k]),
                         EntryAddress(mem_after_values[k + 1]))
        /\ \A r \in 1..Len(trace_rows) :
               (LastAtAddress(r) /\ ActiveNotStale(r)) =>
                   \/ \E k \in 1..Len(mem_after_values) :
                          /\ EntryAddress(mem_after_values[k])
                                 = RowAddress(trace_rows[r])
                          /\ trace_rows[r].mem_after_filter = 1
                   \/ /\ trace_rows[r].mem_after_filter = 0
                      /\ \A k \in 1..Len(mem_after_values) :
                             EntryAddress(mem_after_values[k])
                                 # RowAddress(trace_rows[r])

\* An address written twice: one entry, with the later value; and a second
\* address in the list.
C26_Witness ==
    /\ TraceDone
    /\ Len(mem_after_values) = 1
    /\ Len(input_ops) = 2
    /\ input_ops[1].filter /\ input_ops[2].filter
    /\ input_ops[1].address = input_ops[2].address
    /\ input_ops[1].timestamp < input_ops[2].timestamp
    /\ input_ops[1].value = 0
    /\ input_ops[2].value = MaxValue
    /\ input_ops[2].kind = Write
    /\ EntryValue(mem_after_values[1]) = OpContent(input_ops[2])[4]

\* A list of two entries.
TwoEntries == TraceDone /\ Len(mem_after_values) = 2

(***************************************************************************)
(* C27.  For two adjacent operations at one address with timestamps        *)
(* t < t' and gap g = t' - t > max_rc, fill_gaps inserts exactly           *)
(* ceil(g / max_rc) - 1 dummy reads at that address, at timestamps         *)
(* t + k * max_rc for k = 1, 2, ..., each with the value of the operation  *)
(* at t, so that every resulting timestamp gap is <= max_rc; with 32       *)
(* operations (max_rc = 31) and accesses at timestamps 20 and 100, two     *)
(* dummy reads are added.                                                  *)
(***************************************************************************)
\* The operations of the gap-filled list at the address, strictly between
\* the two timestamps.
OpsBetween(address, t1, t2) ==
    {i \in 1..Len(memory_ops) :
        /\ memory_ops[i].address = address
        /\ t1 < memory_ops[i].timestamp
        /\ memory_ops[i].timestamp < t2}

\* ceil(g / max_rc) - 1
DummiesNeeded(g, max_rc) == (g + max_rc - 1) \div max_rc - 1

\* The accesses of the example, at some address.
ExampleAccess(t) == MemoryOp(TRUE, t, MemoryAddress(0, SEGMENT_STACK, 0), Write, MaxValue)

StaleIdsInRange ==
    \A k \in 1..Len(stale_contexts) : stale_contexts[k] < Len(trace_rows)

RowContextsInRange ==
    \A r \in 1..Len(trace_rows) : trace_rows[r].addr_context < Len(trace_rows)

IndexPanic == Panicked /\ panic = "index out of bounds"

C28_SlotsAlwaysExist ==
    AllInputOps # <<>> =>
        /\ ~IndexPanic
        /\ PastFlags => (StaleIdsInRange /\ RowContextsInRange)

C28_SlotsExistOrPanic ==
    AllInputOps # <<>> =>
        /\ IndexPanic =>
               /\ ~(StaleIdsInRange /\ RowContextsInRange)
               /\ mem_after_values = <<>>
        /\ pc \in {"col_major", "done"} => StaleIdsInRange
        /\ TraceDone => RowContextsInRange

\* A trace of two rows in the far context: no assertion fires, the
\* identifiers are in range, and the context is no row index.
C28_Witness ==
    /\ IndexPanic
    /\ Len(input_ops) = 1
    /\ Len(trace_rows) = 2
    /\ StaleIdsInRange
    /\ trace_rows[1].addr_context = FarContext
    /\ trace_rows[1].range_check = 0

\* A stale-context identifier that is no row index.
StaleIdOutOfRange ==
    /\ IndexPanic
    /\ AllInputOps # <<>>
    /\ ~StaleIdsInRange
    /\ RowContextsInRange

\* The far context within a trace that is long enough.
FarContextInRange ==
    /\ TraceDone
    /\ stale_contexts = <<FarContext>>
    /\ \E r \in 1..Len(trace_rows) : trace_rows[r].addr_context = FarContext


(***************************************************************************)
(* C29: in prove(), block proofs are chained in input order.  The first    *)
(* block awaits the caller-supplied previous_proof (or none); every later  *)
(* block gets past its await of `previous` only with the proof generated   *)
(* for the block before it, taken from that block's one-shot channel, so   *)
(* that block has by then produced and sent its proof; outside test mode   *)
(* that proof is the `prev` of the block's BlockProof.  The list prove()   *)
(* returns has one entry per block, in input order.                        *)
(***************************************************************************)
PastPrevious(i) == stage[i] \in {"block_proof", "write", "done"}

PredecessorProof(i) == IF i = 1 THEN previous_proof ELSE ProofOf(i - 1)

C29_ChainedInInputOrder ==
    /\ \A i \in Blocks :
          PastPrevious(i) =>
              /\ previous[i] = PredecessorProof(i)
              /\ i > 1 => /\ stage[i - 1] = "done"
                          /\ channel[i - 1] = ProofOf(i - 1)
    /\ \A i \in Blocks :
          (stage[i] \in {"write", "done"} /\ ~test_only) =>
              block_proof_prev[i] = PredecessorProof(i)
    /\ returned = "ok" =>
          /\ Len(results) = block_count
          /\ \A k \in 1..Len(results) : results[k][1] = k

\* prove() returned three blocks, the first proved against the caller's
\* proof, the proofs kept for the result.
C29_Witness ==
    /\ returned = "ok"
    /\ block_count = MaxBlocks
    /\ previous_proof = CallerProof
    /\ ~test_only
    /\ ~proof_output_dir
    /\ block_proof_prev[1] = CallerProof
    /\ block_proof_prev[MaxBlocks] = ProofOf(MaxBlocks - 1)
    /\ results[MaxBlocks] = <<MaxBlocks, ProofOf(MaxBlocks)>>

\* In test mode the awaited proof is dropped: the dummy proof has no `prev`.
TestModeDropsPrevious ==
    /\ test_only
    /\ \E i \in Blocks :
          /\ i > 1
          /\ stage[i] = "done"
          /\ previous[i] = ProofOf(i - 1)
          /\ block_proof_prev[i] = NoProof


(***************************************************************************)
(* C30: in prove(), failure propagates along the chain.  A block that      *)
(* failed (at its input, at proving, at writing its proof, or at its       *)
(* predecessor) has sent no proof; no block after a failed one gets past   *)
(* its await of `previous`, and one that failed there failed because the   *)
(* block before it had failed; prove() returns Ok only when every block    *)
(* is done, then with one entry per block, and once a block has failed it  *)
(* returns only an error, with no list at all.                             *)
(***************************************************************************)
Failed(i) == stage[i] = "failed"

C30_FailurePropagates ==
    /\ \A i \in Blocks : Failed(i) => channel[i] = NoProof
    /\ \A i \in Blocks : Failed(i) => \A j \in (i + 1)..block_count :
                                         ~PastPrevious(j)
    /\ \A i \in Blocks : failure[i] = "previous" => (i > 1 /\ Failed(i - 1))
    /\ returned = "ok" =>
          /\ \A i \in Blocks : stage[i] = "done"
          /\ Len(results) = block_count
    /\ (\E i \in Blocks : Failed(i)) => returned # "ok"
    /\ returned = "err" => (results = <<>> /\ \E i \in Blocks : Failed(i))

\* The second of three blocks has no input, the third fails awaiting it,
\* the first proves but cannot send, and prove() returns that error.
C30_Witness ==
    /\ block_count = MaxBlocks
    /\ failure[2] = "input"
    /\ failure[3] = "previous"
    /\ failure[1] = "send"
    /\ returned = "err"
    /\ results = <<>>

\* A proof could not be written, after the block before it was done.
WriteFailed ==
    /\ block_count >= 2
    /\ returned = "err"
    /\ failure[2] = "write"
    /\ stage[1] = "done"
    /\ channel[2] = NoProof

(***************************************************************************)
(* With every future polled until it completes, a failure ends prove()     *)
(* with an error.                                                          *)
(***************************************************************************)
FairSpecProve == SpecProve /\ WF_vars(NextProve)

FailureEndsInError == (\E i \in Blocks : Failed(i)) ~> (returned = "err")

====
